---- MODULE Spec2Model ----
(***************************************************************************)
(* PoseSandbox: the pose/transform resolution engine.                      *)
(*                                                                         *)
(* The repository holds two generations of the application:                *)
(*   - the modular entry point (src/unnamed/part_000, with                 *)
(*     src/controls/selection.js and src/character/character.js), which    *)
(*     has scale mode, body symmetry, the rest snapshot and model import;  *)
(*   - the monolithic application (src/app.js, from line 641 on), which    *)
(*     holds the pose codec serializePose / applyPose and the gallery.     *)
(*                                                                         *)
(* Numbers.  Three.js works in floats; the model works in exact integers.  *)
(* A quaternion component c is represented by the integer c * One, a       *)
(* matrix entry m by m * One * One, so that every rational unit            *)
(* quaternion with denominator One is represented exactly and every        *)
(* square root the library takes on such a value is the root of a perfect  *)
(* square.  Vectors (positions, scales) are triples of integers in         *)
(* arbitrary units; the scale vector (1,1,1) is <<1,1,1>>.                 *)
(*                                                                         *)
(* Strings.  A name the code inspects character by character (startsWith,  *)
(* slice, includes, concatenation) is a sequence of one-character strings. *)
(***************************************************************************)
EXTENDS Integers, Sequences, FiniteSets, TLC

VARIABLES
    STATE_mode,     \* STATE.mode: "rotate" | "move" | "orbit" | "scale"
    SYM_enabled,    \* SYM.enabled
    selected,       \* selection.selected: a reference, or Null
    gizmo_object,   \* the node the transform handle is attached to, or Null
    joints,         \* world.joints: joint id -> [position, quaternion, scale]
    meshes,         \* the rig's pickable parts: mesh id -> scale vector
    props,          \* world.props: sequence of prop objects
    imported,       \* imported model roots in the scene: sequence of objects
    REST,           \* the rest snapshot: joint name -> record, or empty
    poseNotes,      \* poseNotes.value
    gallery,        \* pose documents kept by the gallery, newest first
    nextId,         \* object identities handed out so far
    steps,          \* number of handlers run that count against MaxSteps
    loads,          \* imports whose loader has not called back yet: sequence of files
    objectURLs,     \* number of object URLs created and not yet revoked
    character,      \* the Character object: its joint list, its root group, _built
    lastOp,         \* history: the handler that ran last, with its inputs
    fn_in,          \* pure-function harness: the argument
    fn_out,         \* pure-function harness: the results so far
    fn_pc,          \* pure-function harness: position
    orbit_enabled,  \* orbit.enabled
    gizmo_enabled,  \* gizmo.enabled
    gizmo_dragging, \* gizmo.dragging: a drag of the handle is in progress
    gallerySelectedId,  \* the id of the selected gallery item, or the null id
    galleryUid,     \* number of ids uid() has handed out
    overlay         \* the reference overlay: sprite.visible, _url, _tex, material.map,
                    \* the image loads in flight, and the calls made so far

vars == <<STATE_mode, SYM_enabled, selected, gizmo_object, joints, meshes, props,
          imported, REST, poseNotes, gallery, nextId, steps, loads, objectURLs, character, lastOp,
          fn_in, fn_out, fn_pc, orbit_enabled, gizmo_enabled, gizmo_dragging,
          gallerySelectedId, galleryUid, overlay>>

galleryVars == <<gallerySelectedId, galleryUid>>

\* The switches of the orbit controls and of the transform handle.
uiVars == <<orbit_enabled, gizmo_enabled, gizmo_dragging>>

ioVars == <<loads, objectURLs>>

appVars == <<STATE_mode, SYM_enabled, selected, gizmo_object, joints, meshes, props,
             imported, REST, poseNotes, gallery, nextId, steps, loads, objectURLs, character, lastOp,
             orbit_enabled, gizmo_enabled, gizmo_dragging, gallerySelectedId, galleryUid, overlay>>

fnVars == <<fn_in, fn_out, fn_pc>>

\* createReferenceOverlay: the sprite is hidden, there is no url, no texture
\* and no map, and no file has been passed in.
NewOverlay ==
    [ visible |-> FALSE, url |-> 0, tex |-> 0, map |-> 0,
      loading |-> {}, issued |-> 0, clearedAt |-> 0 ]

\* null / undefined, for an object reference, a name, an identity and a vector.
Null == [ kind |-> "null", id |-> "null" ]
NullName == << "null" >>
NullId == "null"
NullVec == << >>

(***************************************************************************)
(* Names as character sequences.                                           *)
(***************************************************************************)
L_ == <<"l", "_">>
R_ == <<"r", "_">>

StartsWith(s, p) == Len(s) >= Len(p) /\ SubSeq(s, 1, Len(p)) = p

Slice(s, n) == SubSeq(s, n + 1, Len(s))

Includes(s, p) == \E i \in 1..(Len(s) - Len(p) + 1) : SubSeq(s, i, i + Len(p) - 1) = p

\* String(name || ""): a missing or empty name reads as the empty string.
StringOrEmpty(name) == IF name = NullName THEN <<>> ELSE name

\* A plausible slip: the prefix is two characters, the slice drops only one.
counterpartName_slice1(name) ==
    LET n == StringOrEmpty(name)
    IN  IF StartsWith(n, L_) THEN R_ \o Slice(n, 1)
        ELSE IF StartsWith(n, R_) THEN L_ \o Slice(n, 1)
        ELSE NullName

counterpartName(name) ==
    LET n == StringOrEmpty(name)
    IN  IF StartsWith(n, L_) THEN R_ \o Slice(n, 2)
        ELSE IF StartsWith(n, R_) THEN L_ \o Slice(n, 2)
        ELSE NullName

(***************************************************************************)
(* Quaternions and rotation matrices (three.js), in exact integers.        *)
(***************************************************************************)
\* new THREE.Quaternion(): (0, 0, 0, 1).  Its w component fixes the unit.
QuatIdentity == <<0, 0, 0, 3>>

One == QuatIdentity[4]

Norm2(q) == q[1] * q[1] + q[2] * q[2] + q[3] * q[3] + q[4] * q[4]

IsUnit(q) == Norm2(q) = One * One

\* Math.sqrt on the integers: exact on perfect squares, rounded down otherwise.
ISqrt(n) == IF n <= 0 THEN 0 ELSE CHOOSE r \in 0..n : r * r <= n /\ (r + 1) * (r + 1) > n

\* Matrix4.makeRotationFromQuaternion: the upper 3x3 block, row major.
makeRotationFromQuaternion(q) ==
    LET x == q[1]  y == q[2]  z == q[3]  w == q[4]
        I == One * One
    IN  << << I - 2 * (y * y + z * z), 2 * (x * y - w * z),     2 * (x * z + w * y) >>,
           << 2 * (x * y + w * z),     I - 2 * (x * x + z * z), 2 * (y * z - w * x) >>,
           << 2 * (x * z - w * y),     2 * (y * z + w * x),     I - 2 * (x * x + y * y) >> >>

\* new THREE.Matrix4().makeScale(-1, 1, 1)
M_ == << << -1, 0, 0 >>, << 0, 1, 0 >>, << 0, 0, 1 >> >>

\* Matrix4.multiply
MatMul(a, b) ==
    [i \in 1..3 |-> [j \in 1..3 |-> a[i][1] * b[1][j] + a[i][2] * b[2][j] + a[i][3] * b[3][j]]]

\* Quaternion.setFromRotationMatrix: four branches on the trace and the diagonal.
setFromRotationMatrix(m) ==
    LET m11 == m[1][1]  m12 == m[1][2]  m13 == m[1][3]
        m21 == m[2][1]  m22 == m[2][2]  m23 == m[2][3]
        m31 == m[3][1]  m32 == m[3][2]  m33 == m[3][3]
        I == One * One
        trace == m11 + m22 + m33
    IN  IF trace > 0 THEN
            LET rt == ISqrt(trace + I)
            IN  << (m32 - m23) \div (2 * rt), (m13 - m31) \div (2 * rt),
                   (m21 - m12) \div (2 * rt), rt \div 2 >>
        ELSE IF m11 > m22 /\ m11 > m33 THEN
            LET rt == ISqrt(I + m11 - m22 - m33)
            IN  << rt \div 2, (m12 + m21) \div (2 * rt),
                   (m13 + m31) \div (2 * rt), (m32 - m23) \div (2 * rt) >>
        ELSE IF m22 > m33 THEN
            LET rt == ISqrt(I + m22 - m11 - m33)
            IN  << (m12 + m21) \div (2 * rt), rt \div 2,
                   (m23 + m32) \div (2 * rt), (m13 - m31) \div (2 * rt) >>
        ELSE
            LET rt == ISqrt(I + m33 - m11 - m22)
            IN  << (m13 + m31) \div (2 * rt), (m23 + m32) \div (2 * rt),
                   rt \div 2, (m21 - m12) \div (2 * rt) >>

\* Quaternion.normalize
normalize(q) ==
    LET l == ISqrt(Norm2(q))
    IN  IF l = 0 THEN QuatIdentity
        ELSE << (q[1] * One) \div l, (q[2] * One) \div l, (q[3] * One) \div l, (q[4] * One) \div l >>

\* A plausible slip: R' = M R, the second multiplication by M forgotten.
mirrorQuaternionAcrossX_leftOnly(srcQuat) ==
    normalize(setFromRotationMatrix(MatMul(M_, makeRotationFromQuaternion(srcQuat))))

\* R' = M R M with M = diag(-1, 1, 1), back to a quaternion, renormalized.
mirrorQuaternionAcrossX(srcQuat) ==
    normalize(setFromRotationMatrix(
        MatMul(MatMul(M_, makeRotationFromQuaternion(srcQuat)), M_)))

\* Two quaternions stand for the same rotation iff they are equal or opposite.
Negated(q) == << -q[1], -q[2], -q[3], -q[4] >>

SameRotation(p, q) == p = q \/ p = Negated(q)

\* The reflection of a rotation across the plane x = 0, in closed form.
ReflectX(q) == << q[1], -q[2], -q[3], q[4] >>


(***************************************************************************)
(* The rig (Character.build): joints, their pickable parts, the tree.      *)
(* Positions are in hundredths of a scene unit.                            *)
(***************************************************************************)
\* The joints in the order _namedGroup pushes them onto this.joints.
JointOrder ==
    << "char_root", "hips", "chest", "neck", "l_shoulder", "r_shoulder",
       "l_elbow", "r_elbow", "l_wrist", "r_wrist", "l_hip", "r_hip",
       "l_knee", "r_knee", "l_ankle", "r_ankle" >>

JointIds == { JointOrder[i] : i \in 1..Len(JointOrder) }

\* g.name of every joint, as characters.
JointName ==
    [ char_root  |-> << "c","h","a","r","_","r","o","o","t" >>,
      hips       |-> << "h","i","p","s" >>,
      chest      |-> << "c","h","e","s","t" >>,
      neck       |-> << "n","e","c","k" >>,
      l_shoulder |-> L_ \o << "s","h","o","u","l","d","e","r" >>,
      r_shoulder |-> R_ \o << "s","h","o","u","l","d","e","r" >>,
      l_elbow    |-> L_ \o << "e","l","b","o","w" >>,
      r_elbow    |-> R_ \o << "e","l","b","o","w" >>,
      l_wrist    |-> L_ \o << "w","r","i","s","t" >>,
      r_wrist    |-> R_ \o << "w","r","i","s","t" >>,
      l_hip      |-> L_ \o << "h","i","p" >>,
      r_hip      |-> R_ \o << "h","i","p" >>,
      l_knee     |-> L_ \o << "k","n","e","e" >>,
      r_knee     |-> R_ \o << "k","n","e","e" >>,
      l_ankle    |-> L_ \o << "a","n","k","l","e" >>,
      r_ankle    |-> R_ \o << "a","n","k","l","e" >> ]

\* g.position.set(x, y, z) of every joint; root.position.y = 1 at the end.
JointPosition ==
    [ char_root  |-> << 0, 100, 0 >>,
      hips       |-> << 0, 90, 0 >>,
      chest      |-> << 0, 115, 0 >>,
      neck       |-> << 0, 10, 0 >>,
      l_shoulder |-> << -68, 5, 0 >>,
      r_shoulder |-> << 68, 5, 0 >>,
      l_elbow    |-> << 0, -85, 0 >>,
      r_elbow    |-> << 0, -85, 0 >>,
      l_wrist    |-> << 0, -78, 0 >>,
      r_wrist    |-> << 0, -78, 0 >>,
      l_hip      |-> << -28, 2, 0 >>,
      r_hip      |-> << 28, 2, 0 >>,
      l_knee     |-> << 0, -95, 0 >>,
      r_knee     |-> << 0, -95, 0 >>,
      l_ankle    |-> << 0, -92, 0 >>,
      r_ankle    |-> << 0, -92, 0 >> ]

\* new THREE.Object3D(): scale (1, 1, 1).
UnitScale == << 1, 1, 1 >>

\* The children of every joint in the order they were added (Object3D.add):
\* a joint's own box is added before its child joints.
Children ==
    [ char_root  |-> << "hips" >>,
      hips       |-> << "torso_mesh", "chest", "l_hip", "r_hip" >>,
      chest      |-> << "neck", "l_shoulder", "r_shoulder" >>,
      neck       |-> << "head_mesh" >>,
      l_shoulder |-> << "l_upperarm_mesh", "l_elbow" >>,
      r_shoulder |-> << "r_upperarm_mesh", "r_elbow" >>,
      l_elbow    |-> << "l_forearm_mesh", "l_wrist" >>,
      r_elbow    |-> << "r_forearm_mesh", "r_wrist" >>,
      l_wrist    |-> << "l_hand_mesh" >>,
      r_wrist    |-> << "r_hand_mesh" >>,
      l_hip      |-> << "l_thigh_mesh", "l_knee" >>,
      r_hip      |-> << "r_thigh_mesh", "r_knee" >>,
      l_knee     |-> << "l_shin_mesh", "l_ankle" >>,
      r_knee     |-> << "r_shin_mesh", "r_ankle" >>,
      l_ankle    |-> << "l_foot_mesh" >>,
      r_ankle    |-> << "r_foot_mesh" >> ]

\* The boxes _addBox creates (mesh.userData.pickable = true).
MeshIds ==
    { c \in UNION { { Children[j][i] : i \in 1..Len(Children[j]) } : j \in JointIds } :
        c \notin JointIds }

\* mesh.parent: the joint a box was added to.
MeshParent(m) == CHOOSE j \in JointIds : \E i \in 1..Len(Children[j]) : Children[j][i] = m

\* Character.build: every joint at its position, identity rotation, unit scale.
BuiltJoints ==
    [ j \in JointIds |->
        [ position |-> JointPosition[j], quaternion |-> QuatIdentity, scale |-> UnitScale ] ]

\* _addBox: every box with unit scale.
BuiltMeshes == [ m \in MeshIds |-> UnitScale ]

(***************************************************************************)
(* The Character object (src/character/character.js).  A joint object is   *)
(* [name, build]: the joint's name and the build() call that made it, so   *)
(* that the joints of two builds are different objects.                    *)
(***************************************************************************)
\* constructor: an empty root group, an empty joint list, not built.
NewCharacter == [ root |-> << >>, joints |-> << >>, inScene |-> FALSE, built |-> FALSE, made |-> 0 ]

\* A plausible slip: the joint list is not emptied.
clear_keepJoints(ch) == [ ch EXCEPT !.root = << >>, !.inScene = FALSE, !.built = FALSE ]

\* clear(): the root leaves its parent, loses its children, the list is emptied.
clear(ch) == [ ch EXCEPT !.root = << >>, !.joints = << >>, !.inScene = FALSE, !.built = FALSE ]

\* _namedGroup(name, ...): a new group, pushed on this.joints.
_namedGroup(ch, name) == [ ch EXCEPT !.joints = Append(@, [ name |-> name, build |-> ch.made ]) ]

\* The _namedGroup calls of build(), in the order of the source.
RECURSIVE NamedGroupsFrom(_, _)
NamedGroupsFrom(ch, i) ==
    IF i > Len(JointOrder) THEN ch
    ELSE NamedGroupsFrom(_namedGroup(ch, JointOrder[i]), i + 1)

\* build(): clear(), the hierarchy made anew, char_root put under this.root
\* and this.root into the scene.
build(ch) ==
    LET c == NamedGroupsFrom([ clear(ch) EXCEPT !.made = @ + 1 ], 1)
    IN  [ c EXCEPT !.root = Append(@, [ name |-> JointOrder[1], build |-> c.made ]),
                   !.inScene = TRUE,
                   !.built = TRUE ]

\* A plausible slip: the positions go back to the built ones as well.
Character_resetAllJointRotations_all(js) ==
    [ j \in DOMAIN js |-> [ js[j] EXCEPT !.quaternion = QuatIdentity, !.position = JointPosition[j] ] ]

\* resetAllJointRotations(): j.rotation.set(0, 0, 0); j.quaternion.identity()
Character_resetAllJointRotations(js) ==
    [ j \in DOMAIN js |-> [ js[j] EXCEPT !.quaternion = QuatIdentity ] ]

(***************************************************************************)
(* References.  A reference names a scene node by kind and identity:       *)
(*   joint (a rig joint), mesh (a rig box), prop (a prop root),            *)
(*   propMesh (the mesh under a prop root), import (an imported root),     *)
(*   importMesh (a mesh under an imported root), graftedImportMesh (a mesh  *)
(*   tagged by markImportedPickable that hangs under a rig joint),         *)
(*   looseMesh (a pickable mesh in the scene that belongs to no entity).   *)
(***************************************************************************)
Ref(k, i) == [ kind |-> k, id |-> i ]

\* userData.isJoint: set by _namedGroup only.
isJoint(o) == o # Null /\ o.kind = "joint"

\* userData.isProp: prop roots, and (markImportedPickable) imported roots and
\* the meshes under them.
isProp(o) == o # Null /\ o.kind \in { "prop", "import", "importMesh", "graftedImportMesh" }

\* userData.isImportedModel / userData.importRoot: the meshes under an imported root.
isImportedModel(o) == o # Null /\ o.kind \in { "importMesh", "graftedImportMesh" }

importRoot(o) == Ref("import", o.id)

\* o.isMesh
isMesh(o) ==
    o # Null /\ o.kind \in { "mesh", "propMesh", "importMesh", "graftedImportMesh", "looseMesh" }

RECURSIVE FirstMeshIn(_)
\* Object3D.traverse, depth first in child order, stopping at the first pickable mesh.
FirstMeshIn(nodes) ==
    IF nodes = << >> THEN NullId
    ELSE LET n == Head(nodes)
         IN  IF n \in MeshIds THEN n
             ELSE FirstMeshIn(Children[n] \o Tail(nodes))

\* A plausible slip: only the joint's own children are searched.
findFirstPickableMesh_ownOnly(obj) ==
    IF obj = Null THEN Null
    ELSE IF obj.kind = "joint" THEN
        LET own == SelectSeq(Children[obj.id], LAMBDA c : c \in MeshIds)
        IN  IF own = << >> THEN Null ELSE Ref("mesh", Head(own))
    ELSE IF obj.kind = "prop" THEN Ref("propMesh", obj.id)
    ELSE IF obj.kind = "import" THEN Ref("importMesh", obj.id)
    ELSE obj

findFirstPickableMesh(obj) ==
    IF obj = Null THEN Null
    ELSE IF obj.kind = "joint" THEN
        LET m == FirstMeshIn(<< obj.id >>)
        IN  IF m = NullId THEN Null ELSE Ref("mesh", m)
    ELSE IF obj.kind = "prop" THEN Ref("propMesh", obj.id)
    ELSE IF obj.kind = "import" THEN Ref("importMesh", obj.id)
    ELSE obj

\* A plausible slip: the scale-mode exception for joints left out.
getGizmoTargetForSelection_noScaleRule(mode, sel) ==
    IF sel = Null THEN Null
    ELSE IF mode = "orbit" THEN Null
    ELSE IF isImportedModel(sel) THEN importRoot(sel)
    ELSE sel

\* A plausible slip: the orbit test left out.
getGizmoTargetForSelection_noOrbitRule(mode, sel) ==
    IF sel = Null THEN Null
    ELSE IF mode = "scale" /\ isProp(sel) THEN sel
    ELSE IF mode = "scale" /\ isJoint(sel) THEN
        LET mesh == findFirstPickableMesh(sel)
        IN  IF mesh # Null THEN mesh ELSE sel
    ELSE IF isImportedModel(sel) THEN importRoot(sel)
    ELSE sel

\* The Transform Target Policy: STATE.mode and the selection to the handle's node.
getGizmoTargetForSelection(mode, sel) ==
    IF sel = Null THEN Null
    ELSE IF mode = "orbit" THEN Null
    ELSE IF mode = "scale" /\ isProp(sel) THEN sel
    ELSE IF mode = "scale" /\ isJoint(sel) THEN
        LET mesh == findFirstPickableMesh(sel)
        IN  IF mesh # Null THEN mesh ELSE sel
    ELSE IF mode = "scale" /\ isImportedModel(sel) THEN importRoot(sel)
    ELSE IF isImportedModel(sel) THEN importRoot(sel)
    ELSE sel


(***************************************************************************)
(* The scene as the handlers see it: a record of the joints, the rig's     *)
(* boxes, the registered props and the imported roots.                     *)
(***************************************************************************)
Scene == [ joints |-> joints, meshes |-> meshes, props |-> props, imported |-> imported ]

\* The joints of a scene in world.joints order.
JointSeq(sc) == SelectSeq(JointOrder, LAMBDA j : j \in DOMAIN sc.joints)

\* obj.name
NodeName(sc, o) ==
    IF o.kind = "joint" THEN JointName[o.id]
    ELSE IF o.kind = "prop" /\ \E i \in 1..Len(sc.props) : sc.props[i].id = o.id
        THEN sc.props[CHOOSE i \in 1..Len(sc.props) : sc.props[i].id = o.id].name
    ELSE IF o.kind = "import" /\ \E i \in 1..Len(sc.imported) : sc.imported[i].id = o.id
        THEN sc.imported[CHOOSE i \in 1..Len(sc.imported) : sc.imported[i].id = o.id].name
    ELSE << >>

\* obj.position / obj.quaternion / obj.scale of a live node.
NodeField(sc, o, f) ==
    IF o.kind = "joint" THEN sc.joints[o.id][f]
    ELSE IF o.kind = "mesh" THEN sc.meshes[o.id]
    ELSE IF o.kind = "prop" /\ \E i \in 1..Len(sc.props) : sc.props[i].id = o.id
        THEN sc.props[CHOOSE i \in 1..Len(sc.props) : sc.props[i].id = o.id][f]
    ELSE IF o.kind = "import" /\ \E i \in 1..Len(sc.imported) : sc.imported[i].id = o.id
        THEN sc.imported[CHOOSE i \in 1..Len(sc.imported) : sc.imported[i].id = o.id][f]
    ELSE NullVec

\* An assignment to obj.position / obj.quaternion / obj.scale.  A write to an
\* object that is no longer registered changes nothing the application keeps.
WriteNode(sc, o, f, v) ==
    IF o.kind = "joint" THEN [ sc EXCEPT !.joints[o.id][f] = v ]
    ELSE IF o.kind = "mesh" THEN [ sc EXCEPT !.meshes[o.id] = v ]
    ELSE IF o.kind = "prop" THEN
        [ sc EXCEPT !.props =
            [ i \in 1..Len(sc.props) |->
                IF sc.props[i].id = o.id THEN [ sc.props[i] EXCEPT ![f] = v ] ELSE sc.props[i] ] ]
    ELSE IF o.kind = "import" THEN
        [ sc EXCEPT !.imported =
            [ i \in 1..Len(sc.imported) |->
                IF sc.imported[i].id = o.id THEN [ sc.imported[i] EXCEPT ![f] = v ]
                ELSE sc.imported[i] ] ]
    ELSE sc

\* A plausible slip: a name that is not found falls back to the first joint.
getJointByName_orFirst(sc, name) ==
    IF name = NullName \/ name = << >> THEN Null
    ELSE LET hit == SelectSeq(JointSeq(sc), LAMBDA j : JointName[j] = name)
         IN  IF hit = << >> THEN Ref("joint", Head(JointSeq(sc))) ELSE Ref("joint", Head(hit))

\* (world.joints || []).find(j => j && j.name === name) || null
getJointByName(sc, name) ==
    IF name = NullName \/ name = << >> THEN Null
    ELSE LET hit == SelectSeq(JointSeq(sc), LAMBDA j : JointName[j] = name)
         IN  IF hit = << >> THEN Null ELSE Ref("joint", Head(hit))

(***************************************************************************)
(* Body symmetry.                                                          *)
(***************************************************************************)
\* A plausible slip: the counterpart gets a verbatim copy of the rotation.
mirrorRotationToCounterpartIfPossible_copy(sc, sel) ==
    IF sel = Null \/ ~isJoint(sel) THEN sc
    ELSE LET cn == counterpartName(NodeName(sc, sel))
         IN  IF cn = NullName THEN sc
             ELSE LET other == getJointByName(sc, cn)
                  IN  IF other = Null THEN sc
                      ELSE WriteNode(sc, other, "quaternion", NodeField(sc, sel, "quaternion"))

\* A plausible slip: the mirror image goes from the counterpart to the selection.
mirrorRotationToCounterpartIfPossible_reversed(sc, sel) ==
    IF sel = Null \/ ~isJoint(sel) THEN sc
    ELSE LET cn == counterpartName(NodeName(sc, sel))
         IN  IF cn = NullName THEN sc
             ELSE LET other == getJointByName(sc, cn)
                  IN  IF other = Null THEN sc
                      ELSE WriteNode(sc, sel, "quaternion",
                                     mirrorQuaternionAcrossX(NodeField(sc, other, "quaternion")))

mirrorRotationToCounterpartIfPossible(sc, sel) ==
    IF sel = Null \/ ~isJoint(sel) THEN sc
    ELSE LET cn == counterpartName(NodeName(sc, sel))
         IN  IF cn = NullName THEN sc
             ELSE LET other == getJointByName(sc, cn)
                  IN  IF other = Null THEN sc
                      ELSE WriteNode(sc, other, "quaternion",
                                     mirrorQuaternionAcrossX(NodeField(sc, sel, "quaternion")))

\* A plausible slip: the scale is copied onto the counterpart joint, not its part.
mirrorScaleToCounterpartIfPossible_joint(sc, mode, sel) ==
    IF sel = Null \/ ~isJoint(sel) THEN sc
    ELSE LET cn == counterpartName(NodeName(sc, sel))
         IN  IF cn = NullName THEN sc
             ELSE LET otherJoint == getJointByName(sc, cn)
                  IN  IF otherJoint = Null THEN sc
                      ELSE LET thisTarget == getGizmoTargetForSelection(mode, sel)
                           IN  IF isMesh(thisTarget)
                                   THEN WriteNode(sc, otherJoint, "scale",
                                                  NodeField(sc, thisTarget, "scale"))
                                   ELSE sc

mirrorScaleToCounterpartIfPossible(sc, mode, sel) ==
    IF sel = Null \/ ~isJoint(sel) THEN sc
    ELSE LET cn == counterpartName(NodeName(sc, sel))
         IN  IF cn = NullName THEN sc
             ELSE LET otherJoint == getJointByName(sc, cn)
                  IN  IF otherJoint = Null THEN sc
                      ELSE LET otherMesh == findFirstPickableMesh(otherJoint)
                               thisTarget == getGizmoTargetForSelection(mode, sel)
                           IN  IF isMesh(thisTarget) /\ isMesh(otherMesh)
                                   THEN WriteNode(sc, otherMesh, "scale",
                                                  NodeField(sc, thisTarget, "scale"))
                                   ELSE sc

\* A plausible slip: the isJoint guards left out, so that any selection whose
\* name carries a left/right prefix is mirrored onto the rig.
objectChangeListener_noJointGuard(sc, mode, sym, sel) ==
    IF ~sym \/ sel = Null THEN sc
    ELSE LET cn == counterpartName(NodeName(sc, sel))
             other == getJointByName(sc, cn)
         IN  IF cn = NullName \/ other = Null THEN sc
             ELSE IF mode = "rotate"
                 THEN WriteNode(sc, other, "quaternion",
                                mirrorQuaternionAcrossX(NodeField(sc, sel, "quaternion")))
             ELSE IF mode = "scale" /\ isMesh(findFirstPickableMesh(other))
                 THEN WriteNode(sc, findFirstPickableMesh(other), "scale",
                                NodeField(sc, sel, "scale"))
             ELSE sc

\* A plausible slip: the mirroring is put off to a later task.
objectChangeListener_deferred(sc, mode, sym, sel) == sc

\* gizmo.addEventListener("objectChange", ...): mirror when enabled.
objectChangeListener(sc, mode, sym, sel) ==
    IF ~sym THEN sc
    ELSE IF sel = Null \/ ~isJoint(sel) THEN sc
    ELSE IF mode = "rotate" THEN mirrorRotationToCounterpartIfPossible(sc, sel)
    ELSE IF mode = "scale" THEN mirrorScaleToCounterpartIfPossible(sc, mode, sel)
    ELSE sc

(***************************************************************************)
(* Rest snapshot.                                                          *)
(***************************************************************************)
snapshotRestPose(sc) ==
    [ j \in DOMAIN sc.joints |->
        LET mesh == findFirstPickableMesh(Ref("joint", j))
        IN  [ pos       |-> sc.joints[j].position,
              quat      |-> sc.joints[j].quaternion,
              scale     |-> sc.joints[j].scale,
              meshScale |-> IF mesh # Null THEN sc.meshes[mesh.id] ELSE NullVec ] ]

\* One iteration of resetAllJointTransforms' forEach.
ResetJointTransform(sc, rest, j) ==
    IF j \notin DOMAIN rest THEN sc
    ELSE LET r == rest[j]
             s1 == [ sc EXCEPT !.joints[j] =
                        [ position |-> r.pos, quaternion |-> r.quat, scale |-> r.scale ] ]
             mesh == findFirstPickableMesh(Ref("joint", j))
         IN  IF mesh # Null /\ r.meshScale # NullVec
                 THEN WriteNode(s1, mesh, "scale", r.meshScale)
                 ELSE s1

RECURSIVE ResetTransformsFrom(_, _, _)
\* (world.joints || []).forEach(j => ...) of resetAllJointTransforms, joint after joint.
ResetTransformsFrom(sc, rest, js) ==
    IF js = << >> THEN sc
    ELSE ResetTransformsFrom(ResetJointTransform(sc, rest, Head(js)), rest, Tail(js))

\* A plausible slip: the parts' scales are not written back.
resetAllJointTransforms_noMesh(sc, rest) ==
    [ sc EXCEPT !.joints =
        [ j \in DOMAIN sc.joints |->
            IF j \in DOMAIN rest
                THEN [ position |-> rest[j].pos, quaternion |-> rest[j].quat,
                       scale |-> rest[j].scale ]
                ELSE sc.joints[j] ] ]

resetAllJointTransforms(sc, rest) == ResetTransformsFrom(sc, rest, JointSeq(sc))

\* A plausible slip: the rotation reset is done by the full reset.
resetAllJointRotations_transforms(sc, rest) == resetAllJointTransforms(sc, rest)

\* resetAllJointRotations (modular entry point): the rest rotation where the
\* snapshot has one, the identity otherwise.  The iterations are independent.
resetAllJointRotations(sc, rest) ==
    [ sc EXCEPT !.joints =
        [ j \in DOMAIN sc.joints |->
            [ sc.joints[j] EXCEPT !.quaternion =
                IF j \in DOMAIN rest THEN rest[j].quat ELSE QuatIdentity ] ] ]


(***************************************************************************)
(* Selection resolver (SelectionController._resolveSelectionFromHit).       *)
(***************************************************************************)
\* o.parent in the scene graph.
Parent(o) ==
    IF o.kind = "mesh" THEN Ref("joint", MeshParent(o.id))
    ELSE IF o.kind = "joint" THEN
        IF \E p \in JointIds : \E i \in 1..Len(Children[p]) : Children[p][i] = o.id
            THEN Ref("joint", CHOOSE p \in JointIds :
                                \E i \in 1..Len(Children[p]) : Children[p][i] = o.id)
            ELSE Ref("group", "character")
    ELSE IF o.kind = "propMesh" THEN Ref("prop", o.id)
    ELSE IF o.kind = "importMesh" THEN Ref("import", o.id)
    ELSE IF o.kind = "graftedImportMesh" THEN Ref("joint", "hips")
    ELSE IF o.kind = "scene" THEN Null
    ELSE Ref("scene", "scene")

\* userData.isImportedRoot
isImportedRoot(o) == o # Null /\ o.kind = "import"

RECURSIVE ClimbFromHit(_, _)
\* The while loop: climb to the joint group or the prop root.
ClimbFromHit(o, hitObj) ==
    IF o = Null THEN hitObj
    ELSE IF isImportedModel(o) THEN importRoot(o)
    ELSE IF isJoint(Parent(o)) THEN Parent(o)
    ELSE IF isImportedRoot(o) THEN o
    ELSE IF isProp(o) /\ isImportedModel(o) THEN importRoot(o)
    ELSE IF isProp(o) THEN o
    ELSE ClimbFromHit(Parent(o), hitObj)

\* A plausible slip: the joint rule is tried before the back-reference.
resolveSelectionFromHit_jointFirst(hitObj) ==
    IF hitObj = Null THEN Null
    ELSE IF isJoint(Parent(hitObj)) THEN Parent(hitObj)
    ELSE IF isImportedModel(hitObj) THEN importRoot(hitObj)
    ELSE hitObj

\* A plausible slip: the climb is left out and the hit part is returned.
resolveSelectionFromHit_noClimb(hitObj) ==
    IF hitObj = Null THEN Null
    ELSE IF isImportedModel(hitObj) THEN importRoot(hitObj)
    ELSE hitObj

resolveSelectionFromHit(hitObj) ==
    IF hitObj = Null THEN Null
    ELSE IF isImportedModel(hitObj) THEN importRoot(hitObj)
    ELSE ClimbFromHit(hitObj, hitObj)

(***************************************************************************)
(* Props.                                                                  *)
(***************************************************************************)
\* The identities of the objects created at run time, in creation order.
ObjectId == << "o1", "o2", "o3", "o4", "o5", "o6", "o7", "o8", "o9", "o10", "o11", "o12" >>

TypeChars ==
    [ cube   |-> << "c","u","b","e" >>,
      sphere |-> << "s","p","h","e","r","e" >> ]

Digit == << "0","1","2","3","4","5","6","7","8","9" >>

\* String(n) inside a template literal, for 0 <= n < 100.
NumberChars(n) ==
    IF n < 10 THEN << Digit[n + 1] >> ELSE << Digit[(n \div 10) + 1], Digit[(n % 10) + 1] >>

PropPrefix == << "p","r","o","p","_" >>

\* `prop_${t}_${world.props.length + 1}`
PropName(t, n) == PropPrefix \o TypeChars[t] \o << "_" >> \o NumberChars(n)

\* addProp of the monolithic application: a cube for "cube", a sphere for
\* anything else; named after the type and the number of props; placed at a
\* random planar position; registered last in world.props.
addProp(sc, type, id, pos) ==
    LET t == IF type = "cube" THEN "cube" ELSE "sphere"
    IN  [ sc EXCEPT !.props = Append(sc.props,
            [ id         |-> id,
              name       |-> PropName(t, Len(sc.props) + 1),
              type       |-> t,
              position   |-> pos,
              quaternion |-> QuatIdentity,
              scale      |-> UnitScale ]) ]

\* world.js addProp, which is not among the sources: tags the new prop group
\* as a prop with its kind and name and registers it.
addPropWorld(sc, t, id, name) ==
    [ sc EXCEPT !.props = Append(sc.props,
        [ id         |-> id,
          name       |-> name,
          type       |-> t,
          position   |-> << 0, 0, 0 >>,
          quaternion |-> QuatIdentity,
          scale      |-> UnitScale ]) ]

\* spawnProp of the modular entry point.
spawnProp(sc, type, id, pos) ==
    LET s1 == addPropWorld(sc, type, id, PropName(type, Len(sc.props) + 1))
    IN  WriteNode(s1, Ref("prop", id), "position", pos)

\* world.js removeProp, which is not among the sources: detaches and releases
\* the prop; nothing happens when the reference is not a registered prop.
removePropWorld(sc, o) ==
    [ sc EXCEPT !.props = SelectSeq(sc.props, LAMBDA p : ~(o.kind = "prop" /\ p.id = o.id)) ]

(***************************************************************************)
(* Pose codec (serializePose / applyPose of src/app.js).                   *)
(* A document is a record; an absent field is a field the record lacks.    *)
(***************************************************************************)
Has(rec, f) == f \in DOMAIN rec

\* A JSON value the code tests with Array.isArray: an array with its items, or
\* something else (a string, a number, an object), whose content the code
\* never reads.
JsonArray(s) == [ array |-> TRUE, items |-> s ]
NotAnArray == [ array |-> FALSE, items |-> << >> ]

\* Array.isArray
IsArray(v) == v.array

\* Quaternion.toArray / Vector3.toArray
toArray(v) == JsonArray([ i \in 1..Len(v) |-> v[i] ])

\* Quaternion.fromArray: reads components 0..3.
quatFromArray(a) == << a.items[1], a.items[2], a.items[3], a.items[4] >>

\* Vector3.fromArray: reads components 0..2.
vecFromArray(a) == << a.items[1], a.items[2], a.items[3] >>

\* A plausible slip: a prop's rotation written under "rotation", a field
\* applyPose does not read.
serializePose_rotationKey(sc, notes) ==
    [ version |-> 1,
      notes   |-> notes,
      joints  |-> [ n \in { JointName[j] : j \in DOMAIN sc.joints } |->
                      toArray(sc.joints[CHOOSE j \in DOMAIN sc.joints : JointName[j] = n].quaternion) ],
      props   |-> JsonArray([ i \in 1..Len(sc.props) |->
                      [ name     |-> sc.props[i].name,
                        position |-> toArray(sc.props[i].position),
                        rotation |-> toArray(sc.props[i].quaternion),
                        scale    |-> toArray(sc.props[i].scale) ] ]),
      savedAt |-> "now" ]

serializePose(sc, notes) ==
    [ version |-> 1,
      notes   |-> notes,
      joints  |-> [ n \in { JointName[j] : j \in DOMAIN sc.joints } |->
                      toArray(sc.joints[CHOOSE j \in DOMAIN sc.joints : JointName[j] = n].quaternion) ],
      props   |-> JsonArray([ i \in 1..Len(sc.props) |->
                      [ name       |-> sc.props[i].name,
                        position   |-> toArray(sc.props[i].position),
                        quaternion |-> toArray(sc.props[i].quaternion),
                        scale      |-> toArray(sc.props[i].scale) ] ]),
      savedAt |-> "now" ]

\* A plausible slip: one malformed entry makes the whole joints block be skipped.
applyJoints_allOrNothing(sc, data) ==
    IF ~Has(data, "joints") THEN sc
    ELSE IF \E n \in DOMAIN data.joints :
                ~(IsArray(data.joints[n]) /\ Len(data.joints[n].items) = 4) THEN sc
    ELSE [ sc EXCEPT !.joints =
            [ j \in DOMAIN sc.joints |->
                IF JointName[j] \in DOMAIN data.joints
                    THEN [ sc.joints[j] EXCEPT
                            !.quaternion = quatFromArray(data.joints[JointName[j]]) ]
                    ELSE sc.joints[j] ] ]

\* if (data.joints) world.joints.forEach(...): the iterations are independent.
applyJoints(sc, data) ==
    IF ~Has(data, "joints") THEN sc
    ELSE [ sc EXCEPT !.joints =
            [ j \in DOMAIN sc.joints |->
                IF JointName[j] \in DOMAIN data.joints
                   /\ IsArray(data.joints[JointName[j]])
                   /\ Len(data.joints[JointName[j]].items) = 4
                    THEN [ sc.joints[j] EXCEPT
                            !.quaternion = quatFromArray(data.joints[JointName[j]]) ]
                    ELSE sc.joints[j] ] ]

\* A plausible slip: the descriptor's scale is not copied onto the new prop.
ApplyPropDescriptor_noScale(sc, pd, id, pos) ==
    LET nm == IF Has(pd, "name") THEN pd.name ELSE << >>
        isCube == Includes(nm, TypeChars["cube"])
        s1 == addProp(sc, IF isCube THEN "cube" ELSE "sphere", id, pos)
        p == Ref("prop", id)
        s2 == IF Has(pd, "position") THEN WriteNode(s1, p, "position", vecFromArray(pd.position)) ELSE s1
        s3 == IF Has(pd, "quaternion") THEN WriteNode(s2, p, "quaternion", quatFromArray(pd.quaternion)) ELSE s2
    IN  IF nm # << >> THEN WriteNode(s3, p, "name", nm) ELSE s3

\* One iteration of data.props.forEach: a prop of the guessed type, then the
\* descriptor's fields copied over where it has them.
ApplyPropDescriptor(sc, pd, id, pos) ==
    LET nm == IF Has(pd, "name") THEN pd.name ELSE << >>
        isCube == Includes(nm, TypeChars["cube"])
        s1 == addProp(sc, IF isCube THEN "cube" ELSE "sphere", id, pos)
        p == Ref("prop", id)
        s2 == IF Has(pd, "position") THEN WriteNode(s1, p, "position", vecFromArray(pd.position)) ELSE s1
        s3 == IF Has(pd, "quaternion") THEN WriteNode(s2, p, "quaternion", quatFromArray(pd.quaternion)) ELSE s2
        s4 == IF Has(pd, "scale") THEN WriteNode(s3, p, "scale", vecFromArray(pd.scale)) ELSE s3
    IN  IF nm # << >> THEN WriteNode(s4, p, "name", nm) ELSE s4

RECURSIVE ApplyPropsFrom(_, _, _, _, _)
\* data.props.forEach(pd => ...), descriptor after descriptor.
ApplyPropsFrom(sc, pds, i, firstId, rnd) ==
    IF i > Len(pds) THEN sc
    ELSE ApplyPropsFrom(ApplyPropDescriptor(sc, pds[i], ObjectId[firstId + i], rnd[i]),
                        pds, i + 1, firstId, rnd)

\* A plausible slip: the old props are not removed before the new ones are built.
applyProps_noClear(sc, data, firstId, rnd) ==
    IF Has(data, "props") /\ IsArray(data.props)
        THEN ApplyPropsFrom(sc, data.props.items, 1, firstId, rnd)
        ELSE sc

\* A plausible slip: the props are cleared whatever data.props is.
applyProps_clearFirst(sc, data, firstId, rnd) ==
    IF Has(data, "props") /\ IsArray(data.props)
        THEN ApplyPropsFrom([ sc EXCEPT !.props = << >> ], data.props.items, 1, firstId, rnd)
        ELSE [ sc EXCEPT !.props = << >> ]

\* if (Array.isArray(data.props)) { remove all props; rebuild from the list }
applyProps(sc, data, firstId, rnd) ==
    IF Has(data, "props") /\ IsArray(data.props)
        THEN ApplyPropsFrom([ sc EXCEPT !.props = << >> ], data.props.items, 1, firstId, rnd)
        ELSE sc

\* A parsed JSON value that is not an object is a record with the one field
\* "primitive", which holds what the value is.
IsObject(data) == ~Has(data, "primitive")

\* A plausible slip: only the !data half of the test.
applyPoseThrows_falsyOnly(data) ==
    Has(data, "primitive") /\ data.primitive \in { "null", "undefined" }

\* A plausible slip: a joint name the rig does not have is taken for an error.
applyPoseThrows_unknownJoint(data) ==
    \/ ~IsObject(data)
    \/ (Has(data, "joints") /\ \E n \in DOMAIN data.joints : \A j \in DOMAIN JointName : JointName[j] # n)

\* if (!data || typeof data !== "object") throw new Error("Invalid pose JSON"):
\* null and undefined are falsy, a number or a string has another typeof.
applyPoseThrows(data) ==
    \/ (Has(data, "primitive") /\ data.primitive \in { "null", "undefined" })
    \/ ~IsObject(data)

\* applyPose on an object: joints, then props.
applyPose(sc, data, firstId, rnd) == applyProps(applyJoints(sc, data), data, firstId, rnd)

\* if (typeof data.notes === "string" && poseNotes) poseNotes.value = data.notes;
\* a note that is not a string is a document without the field.
applyNotes(notes, data) == IF Has(data, "notes") THEN data.notes ELSE notes

\* The number of props applyPose builds.
PropCount(data) == IF Has(data, "props") /\ IsArray(data.props) THEN Len(data.props.items) ELSE 0


(***************************************************************************)
(* The application after boot, and the idle pure-function harness.         *)
(***************************************************************************)
BuiltScene == [ joints |-> BuiltJoints, meshes |-> BuiltMeshes, props |-> << >>, imported |-> << >> ]

Boot ==
    /\ overlay = NewOverlay
    /\ gallerySelectedId = [ src |-> "null", n |-> 0 ]
    /\ galleryUid = 0
    /\ orbit_enabled = FALSE
    /\ gizmo_enabled = TRUE
    /\ gizmo_dragging = FALSE
    /\ character = build(NewCharacter)
    /\ loads = << >>
    /\ objectURLs = 0
    /\ STATE_mode = "rotate"
    /\ SYM_enabled = FALSE
    /\ selected = Null
    /\ gizmo_object = Null
    /\ joints = BuiltJoints
    /\ meshes = BuiltMeshes
    /\ props = << >>
    /\ imported = << >>
    /\ REST = snapshotRestPose(BuiltScene)
    /\ poseNotes = ""
    /\ gallery = << >>
    /\ nextId = 0
    /\ steps = 0
    /\ lastOp = "boot"

FnIdle == fn_in = << >> /\ fn_out = << >> /\ fn_pc = "idle"

\* The last result of the function under study, or its argument before any call.
FnLast == IF fn_out = << >> THEN fn_in ELSE fn_out[Len(fn_out)]

(***************************************************************************)
(* counterpartName on every name of bounded length.                        *)
(***************************************************************************)
MaxLen == 4

NameAlphabet == { "l", "r", "_", "x" }

NameInputs == { NullName } \cup UNION { [ 1..n -> NameAlphabet ] : n \in 0..MaxLen }

NameInit == Boot /\ fn_in \in NameInputs /\ fn_out = << >> /\ fn_pc = "start"

\* counterpartName(name)
NameCall ==
    /\ fn_pc = "start"
    /\ fn_out' = << counterpartName(fn_in) >>
    /\ fn_pc' = "once"
    /\ UNCHANGED << fn_in, appVars >>

\* counterpartName(counterpartName(name))
NameCallAgain ==
    /\ fn_pc = "once"
    /\ fn_out' = Append(fn_out, counterpartName(FnLast))
    /\ fn_pc' = "twice"
    /\ UNCHANGED << fn_in, appVars >>

NameNext == NameCall \/ NameCallAgain

NameSpec == NameInit /\ [][NameNext]_vars

\* C3: for a name that starts with "l_" or "r_", counterpartName gives a name
\* different from it, and applied again gives the name back; for every other
\* name, the empty and the missing one included, it gives null.
C3_CounterpartInvolution ==
    fn_pc = "twice" =>
        IF fn_in # NullName /\ (StartsWith(fn_in, L_) \/ StartsWith(fn_in, R_))
            THEN /\ fn_out[1] # NullName
                 /\ fn_out[1] # fn_in
                 /\ fn_out[2] = fn_in
            ELSE fn_out[1] = NullName

C3_Witness ==
    /\ fn_pc = "twice"
    /\ StartsWith(fn_in, R_)
    /\ Len(fn_in) = MaxLen
    /\ fn_out[1] = L_ \o Slice(fn_in, 2)
    /\ fn_out[2] = fn_in

(***************************************************************************)
(* mirrorQuaternionAcrossX on every unit quaternion of the grid.           *)
(***************************************************************************)
UnitQuaternions ==
    { q \in (-One..One) \X (-One..One) \X (-One..One) \X (-One..One) : IsUnit(q) }

MirrorInit == Boot /\ fn_in \in UnitQuaternions /\ fn_out = << >> /\ fn_pc = "start"

\* mirrorQuaternionAcrossX(q)
MirrorCall ==
    /\ fn_pc = "start"
    /\ fn_out' = << mirrorQuaternionAcrossX(fn_in) >>
    /\ fn_pc' = "once"
    /\ UNCHANGED << fn_in, appVars >>

\* mirrorQuaternionAcrossX(mirrorQuaternionAcrossX(q))
MirrorCallAgain ==
    /\ fn_pc = "once"
    /\ fn_out' = Append(fn_out, mirrorQuaternionAcrossX(FnLast))
    /\ fn_pc' = "twice"
    /\ UNCHANGED << fn_in, appVars >>

MirrorNext == MirrorCall \/ MirrorCallAgain

MirrorSpec == MirrorInit /\ [][MirrorNext]_vars

\* C4: the mirror of a unit quaternion is a unit quaternion, and the mirror
\* of the mirror is the same rotation as the original (the quaternion or its
\* negation).
C4_MirrorInvolution ==
    /\ fn_pc \in { "once", "twice" } => IsUnit(fn_out[1])
    /\ fn_pc = "twice" => IsUnit(fn_out[2]) /\ SameRotation(fn_out[2], fn_in)

C4_Witness ==
    /\ fn_pc = "twice"
    /\ fn_in[1] # 0 /\ fn_in[2] # 0 /\ fn_in[3] # 0
    /\ fn_out[1] # fn_in
    /\ ~SameRotation(fn_out[1], fn_in)
    /\ SameRotation(fn_out[2], fn_in)


(***************************************************************************)
(* The modular application: inputs and event handlers.                     *)
(***************************************************************************)
\* World-changing handlers per behaviour.
MaxSteps == 2

Modes == { "rotate", "move", "orbit", "scale" }

\* The rig boxes the pointer is aimed at.
HitMeshes == { "l_upperarm_mesh", "r_upperarm_mesh", "head_mesh" }

\* What the handle is dragged to: a rotation, a position, a scale.
EditRotations == { << 1, 2, 2, 0 >>, << 2, 0, -1, 2 >> }
EditPositions == { << 10, 20, 30 >> }
EditScales == { << 2, 1, 3 >> }

\* (Math.random() - 0.5) * 2.0, 0.28, (Math.random() - 0.5) * 2.0
SpawnPositions == { << 50, 28, -50 >>, << -30, 28, 70 >> }

PropTypes == { "cube", "sphere" }

\* The joints randomPose turns.
RandomJoints == { "l_shoulder", "r_shoulder", "l_elbow", "r_elbow", "neck", "chest" }

\* The rotations randomPose draws for them.
RandomDraws ==
    { [ j \in RandomJoints |-> << 1, 2, 2, 0 >> ],
      [ j \in RandomJoints |-> IF j \in { "l_shoulder", "neck" } THEN << 2, 0, -1, 2 >>
                                                                  ELSE << 0, 2, 1, 2 >> ] }

\* The files the user picks: a model (file.name, the placement
\* normalizeImportedModel computes from its geometry), a glTF file without a
\* scene, and a file the loader rejects.
ImportFiles ==
    { [ name |-> JointName["l_shoulder"], gltf |-> "scene",
        position |-> << 160, 0, 0 >>, scale |-> << 2, 2, 2 >> ],
      [ name |-> << "e","m","p","t","y" >>, gltf |-> "noScene" ],
      [ name |-> << "b","a","d" >>, gltf |-> "invalid" ] }

\* Imports that may be waiting for the loader at one time.
MaxLoads == 2

\* Pose documents fed to applyPoseToScene / applyPoseJointsOnlyToScene.
DocJointsOnly ==
    [ version |-> 1,
      joints  |-> [ n \in { JointName["r_elbow"], JointName["neck"] } |->
                      toArray(<< 2, 0, -1, 2 >>) ] ]

DocWithProps ==
    [ version |-> 1,
      notes   |-> "n1",
      joints  |-> [ n \in { JointName["l_shoulder"] } |-> toArray(<< 1, 2, 2, 0 >>) ],
      props   |-> JsonArray(<<
                    [ name       |-> JointName["l_elbow"],
                      position   |-> toArray(<< 5, 28, 5 >>),
                      quaternion |-> toArray(<< 2, 2, 1, 0 >>),
                      scale      |-> toArray(<< 1, 2, 1 >>) ] >>) ]

PoseDocs == { DocJointsOnly, DocWithProps }

\* The objects under the pointer: a rig box, a prop's mesh, an imported
\* model's mesh, or nothing.
Hits ==
    { Null }
        \cup { Ref("mesh", m) : m \in HitMeshes }
        \cup { Ref("propMesh", props[i].id) : i \in 1..Len(props) }
        \cup { Ref("importMesh", imported[i].id) : i \in 1..Len(imported) }

SetScene(sc) ==
    /\ joints' = sc.joints
    /\ meshes' = sc.meshes
    /\ props' = sc.props
    /\ imported' = sc.imported

Init == Boot /\ FnIdle

\* A plausible slip: a pointer-down that hits nothing clears the selection.
onPointerDown_clearOnMiss(mode, helpOpen, hit, sel) ==
    IF mode = "orbit" THEN sel
    ELSE IF helpOpen THEN sel
    ELSE resolveSelectionFromHit(hit)

\* SelectionController.onPointerDown: nothing in orbit mode, nothing while the
\* help modal is shown; else the object picked, if any, becomes the selection.
onPointerDown(mode, helpOpen, hit, sel) ==
    IF mode = "orbit" THEN sel
    ELSE IF helpOpen THEN sel
    ELSE LET obj == resolveSelectionFromHit(hit)
         IN  IF obj # Null THEN obj ELSE sel

\* input.on("pointerdown"): selection.onPointerDown, the promotion of an
\* imported mesh to its root, attachGizmoForCurrentMode.
PointerDown(hit) ==
    LET picked == onPointerDown(STATE_mode, FALSE, hit, selected)
        sel == IF isImportedModel(picked) THEN importRoot(picked) ELSE picked
    IN  /\ selected' = sel
        /\ gizmo_object' = getGizmoTargetForSelection(STATE_mode, sel)
        /\ lastOp' = "pointerdown"
        /\ UNCHANGED << STATE_mode, SYM_enabled, joints, meshes, props, imported, REST,
                        poseNotes, gallery, nextId, steps, fnVars, ioVars, character, uiVars, galleryVars, overlay >>

\* The same handler while the help modal is shown.
PointerDownHelpOpen(hit) ==
    LET picked == onPointerDown(STATE_mode, TRUE, hit, selected)
        sel == IF isImportedModel(picked) THEN importRoot(picked) ELSE picked
    IN  /\ selected' = sel
        /\ gizmo_object' = getGizmoTargetForSelection(STATE_mode, sel)
        /\ lastOp' = "pointerdown:help"
        /\ UNCHANGED << STATE_mode, SYM_enabled, joints, meshes, props, imported, REST,
                        poseNotes, gallery, nextId, steps, fnVars, ioVars, character, uiVars, galleryVars, overlay >>

\* ModesController.setMode, which is not among the sources: the mode becomes
\* m when m is one of the four modes.
ModesSetMode(mode, m) == IF m \in Modes THEN m ELSE mode

\* modes.setMode as wrapped by the entry point.
SetMode(m) ==
    /\ STATE_mode' = ModesSetMode(STATE_mode, m)
    /\ gizmo_object' = getGizmoTargetForSelection(STATE_mode', selected)
    /\ lastOp' = "setMode"
    /\ UNCHANGED << SYM_enabled, selected, joints, meshes, props, imported, REST,
                    poseNotes, gallery, nextId, steps, fnVars, ioVars, character, uiVars, galleryVars, overlay >>

\* btnSymmetry click, Ctrl/Cmd + M.
ToggleSymmetry ==
    /\ SYM_enabled' = ~SYM_enabled
    /\ lastOp' = "symmetry"
    /\ UNCHANGED << STATE_mode, selected, gizmo_object, joints, meshes, props, imported,
                    REST, poseNotes, gallery, nextId, steps, fnVars, ioVars, character, uiVars, galleryVars, overlay >>

\* selection.clearSelection as wrapped by the entry point (Escape).
ClearSelection ==
    /\ selected' = Null
    /\ gizmo_object' = Null
    /\ lastOp' = "clearSelection"
    /\ UNCHANGED << STATE_mode, SYM_enabled, joints, meshes, props, imported, REST,
                    poseNotes, gallery, nextId, steps, fnVars, ioVars, character, uiVars, galleryVars, overlay >>

\* The field of the attached node the handle writes in a mode.
HandleField(mode) ==
    IF mode = "rotate" THEN "quaternion" ELSE IF mode = "move" THEN "position" ELSE "scale"

HandleValues(mode) ==
    IF mode = "rotate" THEN EditRotations ELSE IF mode = "move" THEN EditPositions ELSE EditScales

\* A drag of the transform handle: the handle writes the attached node, then
\* fires objectChange.
HandleEdit(v) ==
    /\ steps < MaxSteps
    /\ gizmo_object # Null
    /\ v \in HandleValues(STATE_mode)
    /\ SetScene(objectChangeListener(
                    WriteNode(Scene, gizmo_object, HandleField(STATE_mode), v),
                    STATE_mode, SYM_enabled, selected))
    /\ steps' = steps + 1
    /\ lastOp' = "edit"
    /\ UNCHANGED << STATE_mode, SYM_enabled, selected, gizmo_object, REST, poseNotes,
                    gallery, nextId, fnVars, ioVars, character, uiVars, galleryVars, overlay >>


\* bindPropButtons (controls/inputs.js, which is not among the sources): a
\* prop button adds a prop of its type and selects it.
PropButton(type, pos) ==
    /\ steps < MaxSteps
    /\ SetScene(spawnProp(Scene, type, ObjectId[nextId + 1], pos))
    /\ nextId' = nextId + 1
    /\ selected' = Ref("prop", ObjectId[nextId + 1])
    /\ gizmo_object' = getGizmoTargetForSelection(STATE_mode, selected')
    /\ steps' = steps + 1
    /\ lastOp' = "addProp"
    /\ UNCHANGED << STATE_mode, SYM_enabled, REST, poseNotes, gallery, fnVars, ioVars, character, uiVars, galleryVars, overlay >>

\* deleteSelectedProp (Delete / Backspace, the delete button).
DeleteSelectedProp ==
    /\ steps < MaxSteps
    /\ steps' = steps + 1
    /\ lastOp' = "deleteSelectedProp"
    /\ IF selected = Null THEN
            UNCHANGED << selected, gizmo_object, joints, meshes, props, imported, ioVars, character >>
       ELSE IF isImportedModel(selected) THEN
            /\ imported' = SelectSeq(imported, LAMBDA r : r.id # selected.id)
            /\ selected' = Null
            /\ gizmo_object' = Null
            /\ UNCHANGED << joints, meshes, props, ioVars, character >>
       ELSE IF ~isProp(selected) THEN
            UNCHANGED << selected, gizmo_object, joints, meshes, props, imported, ioVars, character >>
       ELSE
            /\ SetScene(removePropWorld(Scene, selected))
            /\ selected' = Null
            /\ gizmo_object' = Null
    /\ UNCHANGED << STATE_mode, SYM_enabled, REST, poseNotes, gallery, nextId, fnVars, ioVars, character, uiVars, galleryVars, overlay >>

\* A plausible slip: the root is registered and selected when the import
\* starts, before the loader has resolved.
ImportGLTFFile_eager(file) ==
    /\ steps < MaxSteps
    /\ Len(loads) < MaxLoads
    /\ loads' = Append(loads, file)
    /\ objectURLs' = objectURLs + 1
    /\ imported' = Append(imported,
            [ id         |-> ObjectId[nextId + 1],
              name       |-> file.name,
              position   |-> << 0, 0, 0 >>,
              quaternion |-> QuatIdentity,
              scale      |-> UnitScale ])
    /\ nextId' = nextId + 1
    /\ selected' = Ref("import", ObjectId[nextId + 1])
    /\ gizmo_object' = getGizmoTargetForSelection(STATE_mode, selected')
    /\ steps' = steps + 1
    /\ lastOp' = "import:start"
    /\ UNCHANGED << STATE_mode, SYM_enabled, joints, meshes, props, REST, poseNotes, gallery,
                    fnVars, character, uiVars, galleryVars, overlay >>

\* importGLTFFile up to its await: an object URL is created for the file and
\* the loader is started.
ImportGLTFFile(file) ==
    /\ steps < MaxSteps
    /\ Len(loads) < MaxLoads
    /\ loads' = Append(loads, file)
    /\ objectURLs' = objectURLs + 1
    /\ steps' = steps + 1
    /\ lastOp' = "import:start"
    /\ UNCHANGED << STATE_mode, SYM_enabled, selected, gizmo_object, joints, meshes, props,
                    imported, REST, poseNotes, gallery, nextId, fnVars, character, uiVars, galleryVars, overlay >>

\* loads without its i-th element.
RemoveAt(seq, i) == [ k \in 1..(Len(seq) - 1) |-> IF k < i THEN seq[k] ELSE seq[k + 1] ]

\* A plausible slip: the URL is never revoked.
revokeObjectURL_leak(n) == n

\* finally { URL.revokeObjectURL(url) }: one live object URL less.
revokeObjectURL(n) == n - 1

\* importGLTFFile once the loader has resolved with a scene: the root is
\* named, normalized, tagged, added to the scene and selected; the URL is
\* revoked.
GLTFLoaded(i) ==
    /\ i \in 1..Len(loads)
    /\ loads[i].gltf = "scene"
    /\ imported' = Append(imported,
            [ id         |-> ObjectId[nextId + 1],
              name       |-> loads[i].name,
              position   |-> loads[i].position,
              quaternion |-> QuatIdentity,
              scale      |-> loads[i].scale ])
    /\ nextId' = nextId + 1
    /\ selected' = Ref("import", ObjectId[nextId + 1])
    /\ gizmo_object' = getGizmoTargetForSelection(STATE_mode, selected')
    /\ loads' = RemoveAt(loads, i)
    /\ objectURLs' = revokeObjectURL(objectURLs)
    /\ lastOp' = "import"
    /\ UNCHANGED << STATE_mode, SYM_enabled, joints, meshes, props, REST, poseNotes,
                    gallery, steps, fnVars, character, uiVars, galleryVars, overlay >>

\* importGLTFFile once the loader has rejected, or resolved without a scene
\* (throw new Error("No scene in GLTF")): the catch block warns and shows
\* "Import failed (invalid .glb/.gltf)", the finally block revokes the URL.
GLTFFailed(i) ==
    /\ i \in 1..Len(loads)
    /\ loads[i].gltf \in { "noScene", "invalid" }
    /\ loads' = RemoveAt(loads, i)
    /\ objectURLs' = revokeObjectURL(objectURLs)
    /\ lastOp' = "import:failed"
    /\ UNCHANGED << STATE_mode, SYM_enabled, selected, gizmo_object, joints, meshes, props,
                    imported, REST, poseNotes, gallery, nextId, steps, fnVars, character, uiVars, galleryVars, overlay >>

\* resetPose: resetAllJointTransforms, then the handle re-attached.
ResetPose ==
    /\ SetScene(resetAllJointTransforms(Scene, REST))
    /\ gizmo_object' = getGizmoTargetForSelection(STATE_mode, selected)
    /\ lastOp' = "resetPose"
    /\ UNCHANGED << STATE_mode, SYM_enabled, selected, REST, poseNotes, gallery, nextId,
                    steps, fnVars, ioVars, character, uiVars, galleryVars, overlay >>

\* randomPose: six joints get a random rotation.
randomPose(sc, draw) ==
    [ sc EXCEPT !.joints =
        [ j \in DOMAIN sc.joints |->
            IF j \in RandomJoints THEN [ sc.joints[j] EXCEPT !.quaternion = draw[j] ]
                                  ELSE sc.joints[j] ] ]

RandomPose(draw) ==
    /\ steps < MaxSteps
    /\ SetScene(randomPose(Scene, draw))
    /\ steps' = steps + 1
    /\ lastOp' = "randomPose"
    /\ UNCHANGED << STATE_mode, SYM_enabled, selected, gizmo_object, REST, poseNotes,
                    gallery, nextId, fnVars, ioVars, character, uiVars, galleryVars, overlay >>

\* applyPoseToScene(data): applyPose with spawnProp as the prop factory.
ApplyPoseToScene(data, rnd) ==
    /\ steps < MaxSteps
    /\ SetScene(applyPose(Scene, data, nextId, rnd))
    /\ nextId' = nextId + PropCount(data)
    /\ poseNotes' = applyNotes(poseNotes, data)
    /\ steps' = steps + 1
    /\ lastOp' = "applyPose"
    /\ UNCHANGED << STATE_mode, SYM_enabled, selected, gizmo_object, REST, gallery, fnVars, ioVars, character, uiVars, galleryVars, overlay >>

\* A plausible slip: the document's joints are applied onto the pose as it is.
applyPoseJointsOnly_noReset(sc, rest, data) == applyJoints(sc, data)

\* A plausible slip: the props are cleared as applyPose clears them.
applyPoseJointsOnly_clearProps(sc, rest, data) ==
    [ applyJoints(resetAllJointRotations(sc, rest), data) EXCEPT !.props = << >> ]

\* applyPoseJointsOnly of poses/pose-io.js, which is not among the sources:
\* the joint rotations are reset through the resetAllJointRotations it is
\* given, then the document's joints are applied; props are not touched.
applyPoseJointsOnly(sc, rest, data) == applyJoints(resetAllJointRotations(sc, rest), data)

ApplyPoseJointsOnlyToScene(data) ==
    /\ steps < MaxSteps
    /\ Has(data, "joints")
    /\ SetScene(applyPoseJointsOnly(Scene, REST, data))
    /\ steps' = steps + 1
    /\ lastOp' = "applyPoseJointsOnly"
    /\ UNCHANGED << STATE_mode, SYM_enabled, selected, gizmo_object, REST, poseNotes,
                    gallery, nextId, fnVars, ioVars, character, uiVars, galleryVars, overlay >>

Next ==
    \/ \E hit \in Hits : PointerDown(hit)
    \/ \E m \in Modes : SetMode(m)
    \/ ToggleSymmetry
    \/ ClearSelection
    \/ \E v \in EditRotations \cup EditPositions \cup EditScales : HandleEdit(v)
    \/ \E type \in PropTypes, pos \in SpawnPositions : PropButton(type, pos)
    \/ DeleteSelectedProp
    \/ \E file \in ImportFiles : ImportGLTFFile(file)
    \/ \E i \in 1..MaxLoads : GLTFLoaded(i)
    \/ \E i \in 1..MaxLoads : GLTFFailed(i)
    \/ ResetPose
    \/ \E draw \in RandomDraws : RandomPose(draw)
    \/ \E data \in PoseDocs : \E rnd \in [ 1..PropCount(data) -> SpawnPositions ] :
            ApplyPoseToScene(data, rnd)
    \/ \E data \in PoseDocs : ApplyPoseJointsOnlyToScene(data)

Spec == Init /\ [][Next]_vars

\* The application with pointer-downs that arrive while the help modal is
\* shown.
HelpSpec == Init /\ [][Next \/ \E hit \in Hits : PointerDownHelpOpen(hit)]_vars

\* The handle sits on a rig box only in scale mode.
TypeOK ==
    /\ STATE_mode \in Modes
    /\ SYM_enabled \in BOOLEAN
    /\ steps \in 0..MaxSteps
    /\ (gizmo_object.kind = "mesh" => STATE_mode = "scale")
    /\ \A j \in DOMAIN joints : IsUnit(joints[j].quaternion)


(***************************************************************************)
(* Properties of the modular application.                                  *)
(***************************************************************************)
\* The joint a name belongs to.
JointNamed(name) == CHOOSE j \in JointIds : JointName[j] = name

HasCounterpart(j) ==
    /\ counterpartName(JointName[j]) # NullName
    /\ \E k \in JointIds : JointName[k] = counterpartName(JointName[j])

\* The box added to a joint itself, if it has one.
HasOwnPart(j) == \E m \in MeshIds : MeshParent(m) = j
OwnPart(j) == CHOOSE m \in MeshIds : MeshParent(m) = j

\* C5: the rest snapshot taken at boot has an entry for every joint of the
\* rig, and right after resetPose, whatever edits came before, every joint
\* has its snapshotted position, rotation and scale and every joint's visible
\* part has its snapshotted scale.
C5_RestRestore ==
    /\ DOMAIN REST = JointIds
    /\ REST = snapshotRestPose(BuiltScene)
    /\ lastOp = "resetPose" =>
        /\ \A j \in JointIds :
            /\ joints[j].position = REST[j].pos
            /\ joints[j].quaternion = REST[j].quat
            /\ joints[j].scale = REST[j].scale
            /\ HasOwnPart(j) => meshes[OwnPart(j)] = REST[j].meshScale
        /\ \A m \in MeshIds : meshes[m] = UnitScale

C5_Witness ==
    /\ lastOp = "resetPose"
    /\ steps = MaxSteps
    /\ poseNotes = "n1"
    /\ props # << >>
    /\ joints = BuiltJoints
    /\ meshes = BuiltMeshes

\* C6: a handle edit made in scale mode with a joint selected changes no
\* joint's scale, which stays the identity scale, and changes the scale of no
\* part other than the selected joint's part and, with symmetry on, the part
\* of its counterpart.
C6_ScaleEditsPartOnly ==
    [][ (lastOp' = "edit" /\ STATE_mode = "scale" /\ isJoint(selected)) =>
            /\ \A j \in JointIds :
                /\ joints'[j] = joints[j]
                /\ joints'[j].scale = UnitScale
            /\ \A m \in MeshIds :
                meshes'[m] # meshes[m] =>
                    \/ m = OwnPart(selected.id)
                    \/ /\ SYM_enabled
                       /\ HasCounterpart(selected.id)
                       /\ m = OwnPart(JointNamed(counterpartName(JointName[selected.id])))
      ]_vars

C6_Witness ==
    /\ lastOp = "edit"
    /\ STATE_mode = "scale"
    /\ selected = Ref("joint", "l_shoulder")
    /\ SYM_enabled
    /\ meshes["l_upperarm_mesh"] # UnitScale
    /\ meshes["r_upperarm_mesh"] = meshes["l_upperarm_mesh"]
    /\ \A j \in JointIds : joints[j].scale = UnitScale

\* The entities of the current state a selection can be: the joints, the
\* props and the imported models' roots.
Entities ==
    { Ref("joint", j) : j \in JointIds }
        \cup { Ref("prop", props[i].id) : i \in 1..Len(props) }
        \cup { Ref("import", imported[i].id) : i \in 1..Len(imported) }

\* The entities and the meshes of the imported models.
Selectables == Entities \cup { Ref("importMesh", imported[i].id) : i \in 1..Len(imported) }

\* C7: in orbit mode the policy gives no target for no selection, a joint, a
\* prop and an imported model alike, and in every state whose mode is orbit
\* the handle is detached.
C7_OrbitDetached ==
    /\ \A sel \in Selectables \cup { Null } : getGizmoTargetForSelection("orbit", sel) = Null
    /\ STATE_mode = "orbit" => gizmo_object = Null

C7_Witness ==
    /\ STATE_mode = "orbit"
    /\ lastOp = "import"
    /\ selected.kind = "import"
    /\ gizmo_object = Null

\* The table of the Transform Target Policy.
PolicyTable(mode, sel) ==
    IF sel = Null THEN Null
    ELSE IF mode = "orbit" THEN Null
    ELSE IF sel.kind = "import" THEN sel
    ELSE IF sel.kind = "prop" THEN sel
    ELSE IF mode \in { "rotate", "move" } THEN sel
    ELSE IF HasOwnPart(sel.id) THEN Ref("mesh", OwnPart(sel.id))
    ELSE Ref("mesh", FirstMeshIn(Children[sel.id]))

C9_SymmetryRotation ==
    [][ (/\ lastOp' = "edit"
         /\ STATE_mode = "rotate"
         /\ isJoint(selected)
         /\ HasCounterpart(selected.id)) =>
            LET J == selected.id
                Jc == JointNamed(counterpartName(JointName[J]))
            IN  /\ joints'[J].quaternion \in EditRotations
                /\ IF SYM_enabled
                       THEN SameRotation(joints'[Jc].quaternion, ReflectX(joints'[J].quaternion))
                       ELSE joints'[Jc].quaternion = joints[Jc].quaternion
      ]_vars

C9_Witness ==
    /\ lastOp = "edit"
    /\ STATE_mode = "rotate"
    /\ SYM_enabled
    /\ selected = Ref("joint", "r_shoulder")
    /\ joints["r_shoulder"].quaternion = << 1, 2, 2, 0 >>
    /\ SameRotation(joints["l_shoulder"].quaternion, << 1, -2, -2, 0 >>)
    /\ steps = MaxSteps

\* C10: with symmetry on, a handle edit made while a prop or an imported
\* model's root is selected changes no joint and no part of the rig, also
\* when the selected entity's name starts with "l_" or "r_".
C10_SymmetryJointsOnly ==
    [][ (/\ lastOp' = "edit"
         /\ SYM_enabled
         /\ selected.kind \in { "prop", "import" }) =>
            joints' = joints /\ meshes' = meshes
      ]_vars

C10_Witness ==
    /\ lastOp = "edit"
    /\ SYM_enabled
    /\ STATE_mode = "rotate"
    /\ selected.kind = "import"
    /\ NodeName(Scene, selected) = JointName["l_shoulder"]
    /\ NodeField(Scene, selected, "quaternion") \in EditRotations
    /\ joints = BuiltJoints


(***************************************************************************)
(* The application with the ticks of the render loop between its handlers. *)
(***************************************************************************)
\* A tick of the loop of engine/loop.js, which is not among the sources: the
\* scene is drawn as it is; nothing of the application's state is written.
RenderTick ==
    /\ lastOp' = "render"
    /\ UNCHANGED << STATE_mode, SYM_enabled, selected, gizmo_object, joints, meshes, props,
                    imported, REST, poseNotes, gallery, nextId, steps, fnVars, ioVars,
                    character, uiVars, galleryVars, overlay >>

RenderSpec == Init /\ [][Next \/ RenderTick]_vars

(***************************************************************************)
(* The Character object under a client that calls its methods at any time  *)
(* between the handlers of the application.                                *)
(***************************************************************************)
\* build() calls made in one behaviour, the one at boot included.
MaxBuilds == 3

\* character.build() called again.  world.joints is the array the Character
\* fills, so the world sees the new joints at their built transforms.  A
\* reference of the model names a rig object by its name only, so the call
\* is made while no rig object is selected.
CharacterBuild ==
    /\ steps < MaxSteps
    /\ character.made < MaxBuilds
    /\ selected.kind \notin { "joint", "mesh" }
    /\ character' = build(character)
    /\ joints' = BuiltJoints
    /\ meshes' = BuiltMeshes
    /\ steps' = steps + 1
    /\ lastOp' = "Character.build"
    /\ UNCHANGED << STATE_mode, SYM_enabled, selected, gizmo_object, props, imported, REST,
                    poseNotes, gallery, nextId, fnVars, ioVars, uiVars, galleryVars, overlay >>

\* character.resetAllJointRotations()
CharacterResetAllJointRotations ==
    /\ joints' = Character_resetAllJointRotations(joints)
    /\ lastOp' = "Character.resetAllJointRotations"
    /\ UNCHANGED << STATE_mode, SYM_enabled, selected, gizmo_object, meshes, props, imported,
                    REST, poseNotes, gallery, nextId, steps, fnVars, ioVars, character, uiVars, galleryVars, overlay >>

CharacterNext ==
    \/ Next
    \/ CharacterBuild
    \/ CharacterResetAllJointRotations

CharacterSpec == Init /\ [][CharacterNext]_vars

(***************************************************************************)
(* The monolithic application (src/app.js from line 641 on): rotate, move  *)
(* and orbit mode, props, the pose codec and the gallery.                  *)
(***************************************************************************)
\* Saved poses per behaviour.
MaxGallery == 2

\* GALLERY.maxItems
GalleryMaxItems == 30

\* Gallery ids: the ids uid() hands out, the ids found in storage, and null.
GalleryId(src, n) == [ src |-> src, n |-> n ]
NoGalleryId == GalleryId("null", 0)

\* uid(): the time and a random suffix, a fresh id on every call.
uid(n) == GalleryId("uid", n)

\* What localStorage holds under GALLERY.key at boot, as the text's JSON value:
\* nothing (getItem gives null, which parses to null), text that does not
\* parse, a value that is no array, or an array.
StorageEmpty == [ primitive |-> "null" ]
StorageUnparsable == [ primitive |-> "unparsable" ]

\* safeJsonParse(s, fallback): JSON.parse, or the fallback when it throws.
safeJsonParse(s, fallback) ==
    IF Has(s, "primitive") /\ s.primitive = "unparsable" THEN fallback ELSE s

\* it && typeof it === "object" && it.id && it.pose && it.thumb
GalleryItemOk(it) ==
    /\ IsObject(it)
    /\ Has(it, "id") /\ it.id # NoGalleryId
    /\ Has(it, "pose")
    /\ Has(it, "thumb") /\ it.thumb # ""

\* loadGalleryFromStorage: the stored array, without the entries that are no
\* gallery items, cut to GALLERY.maxItems.
loadGalleryFromStorage(raw) ==
    LET parsed == safeJsonParse(raw, JsonArray(<< >>))
        items  == IF IsObject(parsed) /\ IsArray(parsed) THEN parsed.items ELSE << >>
        kept   == SelectSeq(items, GalleryItemOk)
    IN  IF Len(kept) > GalleryMaxItems THEN SubSeq(kept, 1, GalleryMaxItems) ELSE kept

\* A plausible slip: the list is cut only once it is two over.
unshift_lateCut(items, item, maxItems) ==
    LET all == << item >> \o items
    IN  IF Len(all) > maxItems + 1 THEN SubSeq(all, 1, maxItems) ELSE all

\* galleryItems.unshift(item); if (galleryItems.length > GALLERY.maxItems)
\* galleryItems.length = GALLERY.maxItems
unshift(items, item, maxItems) ==
    LET all == << item >> \o items
    IN  IF Len(all) > maxItems THEN SubSeq(all, 1, maxItems) ELSE all

RECURSIVE TrimStart(_)
TrimStart(s) == IF s # << >> /\ Head(s) = " " THEN TrimStart(Tail(s)) ELSE s

RECURSIVE TrimEnd(_)
TrimEnd(s) ==
    IF s # << >> /\ s[Len(s)] = " " THEN TrimEnd(SubSeq(s, 1, Len(s) - 1)) ELSE s

\* String.prototype.trim on the names typed here (blanks only).
trim(s) == TrimEnd(TrimStart(s))

PosePrefix == << "P","o","s","e"," " >>
UntitledPose == << "U","n","t","i","t","l","e","d"," ","p","o","s","e" >>

\* (name || "").trim() || `Pose ${galleryItems.length + 1}`
GalleryItemName(name, n) == IF trim(name) # << >> THEN trim(name) ELSE PosePrefix \o NumberChars(n)

\* captureThumbnail: a data URL, or null when there is no 2d context or
\* toDataURL throws.
Thumbs == { "data:image/png", "" }

MonoModes == { "rotate", "move", "orbit" }

\* buildCharacter: the rig without wrists and ankles.
MonoJointIds == JointIds \ { "l_wrist", "r_wrist", "l_ankle", "r_ankle" }

MonoMeshIds == { m \in MeshIds : MeshParent(m) \in MonoJointIds }

\* Pose files the user loads (filePose change).
DocSparse ==
    [ version |-> 1,
      joints  |-> [ n \in { JointName["chest"] } |-> toArray(<< 0, 2, 1, 2 >>) ],
      props   |-> JsonArray(<< [ name |-> << "m","y","c","u","b","e" >> ] >>) ]

\* A hand-edited file: a joint the rig does not have, a rotation of three
\* numbers, a rotation that is no list, and props that are no list.
DocOdd ==
    [ version |-> 1,
      joints  |-> [ n \in { << "f","o","o" >>, JointName["neck"], JointName["chest"], JointName["hips"] } |->
                      IF n = JointName["chest"] THEN JsonArray(<< 1, 2, 2 >>)
                      ELSE IF n = JointName["hips"] THEN NotAnArray
                      ELSE toArray(<< 2, 1, 0, 2 >>) ],
      props   |-> NotAnArray ]

FileDocs == { DocJointsOnly, DocWithProps, DocSparse, DocOdd }

\* A file whose prop descriptors carry a type of their own next to a name
\* that suggests the other type.
DocTyped ==
    [ version |-> 1,
      props   |-> JsonArray(<<
                    [ type |-> "sphere", name |-> << "m","y","c","u","b","e" >> ],
                    [ type |-> "cube",   name |-> << "b","a","l","l" >> ] >>) ]

HandEditedDocs == FileDocs \cup { DocTyped }

\* Files whose JSON text is not an object, and the undefined of a missing pose.
NonObjects == { [ primitive |-> k ] : k \in { "null", "undefined", "number", "string" } }

\* Boot of the single-file application with raw under GALLERY.key.
MonoBoot(raw) ==
    /\ overlay = NewOverlay
    /\ gallerySelectedId = NoGalleryId
    /\ galleryUid = 0
    /\ orbit_enabled = FALSE
    /\ gizmo_enabled = TRUE
    /\ gizmo_dragging = FALSE
    /\ character = NewCharacter
    /\ loads = << >>
    /\ objectURLs = 0
    /\ STATE_mode = "rotate"
    /\ SYM_enabled = FALSE
    /\ selected = Null
    /\ gizmo_object = Null
    /\ joints = [ j \in MonoJointIds |-> BuiltJoints[j] ]
    /\ meshes = [ m \in MonoMeshIds |-> UnitScale ]
    /\ props = << >>
    /\ imported = << >>
    /\ REST = << >>
    /\ poseNotes = ""
    /\ gallery = loadGalleryFromStorage(raw)
    /\ nextId = 0
    /\ steps = 0
    /\ lastOp = "boot"
    /\ fn_in = [ version |-> 0 ]
    /\ fn_out = << >>
    /\ fn_pc = "idle"

\* Boot on a browser that has stored nothing.
MonoInit == MonoBoot(StorageEmpty)

RECURSIVE MonoClimb(_, _)
\* pickFromPointer's loop: up to the joint group or the prop root.
MonoClimb(o, hitObj) ==
    IF o = Null \/ Parent(o) = Null THEN hitObj
    ELSE IF isJoint(Parent(o)) THEN Parent(o)
    ELSE IF o.kind = "prop" THEN o
    ELSE MonoClimb(Parent(o), hitObj)

MonoHits ==
    { Null }
        \cup { Ref("mesh", m) : m \in HitMeshes }
        \cup { Ref("propMesh", props[i].id) : i \in 1..Len(props) }

\* onPointerDown: nothing in orbit mode; a hit selects and attaches the handle.
MonoPointerDown(hit) ==
    LET obj == IF hit = Null THEN Null ELSE MonoClimb(hit, hit)
    IN  /\ IF STATE_mode # "orbit" /\ obj # Null
               THEN selected' = obj /\ gizmo_object' = obj
               ELSE UNCHANGED << selected, gizmo_object, ioVars, character >>
        /\ lastOp' = "pointerdown"
        /\ UNCHANGED << STATE_mode, SYM_enabled, joints, meshes, props, imported, REST,
                        poseNotes, gallery, nextId, steps, fnVars, ioVars, character, uiVars, galleryVars, overlay >>

\* setMode: the handle is enabled outside orbit mode and stays attached.
MonoSetMode(m) ==
    /\ STATE_mode' = m
    /\ gizmo_enabled' = (m # "orbit")
    /\ orbit_enabled' = (m = "orbit")
    /\ lastOp' = "setMode"
    /\ UNCHANGED << SYM_enabled, selected, gizmo_object, joints, meshes, props, imported,
                    REST, poseNotes, gallery, nextId, steps, fnVars, ioVars, character,
                    gizmo_dragging, galleryVars, overlay >>

\* The handle's "dragging-changed" listener.
draggingChanged(value, mode) == ~value /\ mode = "orbit"

\* A pointer-down on the enabled, attached handle starts a drag.
DragStart ==
    /\ gizmo_enabled
    /\ gizmo_object # Null
    /\ ~gizmo_dragging
    /\ gizmo_dragging' = TRUE
    /\ orbit_enabled' = draggingChanged(TRUE, STATE_mode)
    /\ lastOp' = "dragStart"
    /\ UNCHANGED << STATE_mode, SYM_enabled, selected, gizmo_object, joints, meshes, props,
                    imported, REST, poseNotes, gallery, nextId, steps, fnVars, ioVars, character,
                    gizmo_enabled, galleryVars, overlay >>

\* The pointer is released: the drag ends.
DragEnd ==
    /\ gizmo_dragging
    /\ gizmo_dragging' = FALSE
    /\ orbit_enabled' = draggingChanged(FALSE, STATE_mode)
    /\ lastOp' = "dragEnd"
    /\ UNCHANGED << STATE_mode, SYM_enabled, selected, gizmo_object, joints, meshes, props,
                    imported, REST, poseNotes, gallery, nextId, steps, fnVars, ioVars, character,
                    gizmo_enabled, galleryVars, overlay >>

\* clearSelection (Escape).
MonoClearSelection ==
    /\ selected' = Null
    /\ gizmo_object' = Null
    /\ lastOp' = "clearSelection"
    /\ UNCHANGED << STATE_mode, SYM_enabled, joints, meshes, props, imported, REST,
                    poseNotes, gallery, nextId, steps, fnVars, ioVars, character, uiVars, galleryVars, overlay >>

\* A drag of the handle (gizmo.enabled, an attached node): translate in move
\* mode, rotate otherwise.
MonoHandleEdit(v) ==
    /\ steps < MaxSteps
    /\ STATE_mode # "orbit"
    /\ gizmo_object # Null
    /\ v \in HandleValues(STATE_mode)
    /\ SetScene(WriteNode(Scene, gizmo_object, HandleField(STATE_mode), v))
    /\ steps' = steps + 1
    /\ lastOp' = "edit"
    /\ UNCHANGED << STATE_mode, SYM_enabled, selected, gizmo_object, REST, poseNotes,
                    gallery, nextId, fnVars, ioVars, character, uiVars, galleryVars, overlay >>

\* btnAddCube / btnAddSphere: addProp(type).
MonoAddProp(type, pos) ==
    /\ steps < MaxSteps
    /\ SetScene(addProp(Scene, type, ObjectId[nextId + 1], pos))
    /\ nextId' = nextId + 1
    /\ steps' = steps + 1
    /\ lastOp' = "addProp"
    /\ UNCHANGED << STATE_mode, SYM_enabled, selected, gizmo_object, REST, poseNotes,
                    gallery, fnVars, ioVars, character, uiVars, galleryVars, overlay >>

\* deleteSelectedProp of the monolithic application.
\* deleteSelectedProp of the monolithic application; the step it costs is
\* counted where it is used.
\* A plausible slip: the isProp half of the guard is left out.
MonoDeleteSelectedProp_anySelection ==
    /\ lastOp' = "deleteSelectedProp"
    /\ IF selected = Null
           THEN UNCHANGED << selected, gizmo_object, props >>
           ELSE /\ props' = SelectSeq(props, LAMBDA p : p.id # selected.id)
                /\ selected' = Null
                /\ gizmo_object' = Null
    /\ UNCHANGED << STATE_mode, SYM_enabled, joints, meshes, imported, REST, poseNotes,
                    gallery, nextId, fnVars, ioVars, character, uiVars, galleryVars, overlay >>

MonoDeleteSelectedProp ==
    /\ lastOp' = "deleteSelectedProp"
    /\ IF selected = Null \/ selected.kind # "prop"
           THEN UNCHANGED << selected, gizmo_object, props >>
           ELSE /\ props' = SelectSeq(props, LAMBDA p : p.id # selected.id)
                /\ selected' = Null
                /\ gizmo_object' = Null
    /\ UNCHANGED << STATE_mode, SYM_enabled, joints, meshes, imported, REST, poseNotes,
                    gallery, nextId, fnVars, ioVars, character, uiVars, galleryVars, overlay >>

\* resetPose of the monolithic application: j.rotation.set(0, 0, 0).
MonoResetPose ==
    /\ joints' = [ j \in DOMAIN joints |-> [ joints[j] EXCEPT !.quaternion = QuatIdentity ] ]
    /\ lastOp' = "resetPose"
    /\ UNCHANGED << STATE_mode, SYM_enabled, selected, gizmo_object, meshes, props, imported,
                    REST, poseNotes, gallery, nextId, steps, fnVars, ioVars, character, uiVars, galleryVars, overlay >>

MonoRandomPose(draw) ==
    /\ steps < MaxSteps
    /\ SetScene(randomPose(Scene, draw))
    /\ steps' = steps + 1
    /\ lastOp' = "randomPose"
    /\ UNCHANGED << STATE_mode, SYM_enabled, selected, gizmo_object, REST, poseNotes,
                    gallery, nextId, fnVars, ioVars, character, uiVars, galleryVars, overlay >>

\* savePoseToGallery({ name }): without a thumbnail nothing is saved; otherwise
\* the new item goes to the front of the gallery, which keeps
\* GALLERY.maxItems items, and becomes the selected one.  createdAt is a
\* timestamp only the card's caption shows; what saveGalleryToStorage writes
\* is read again only by the next boot.
SavePoseToGallery(name, thumb) ==
    /\ galleryUid < MaxGallery
    /\ IF thumb = ""
           THEN /\ lastOp' = "savePoseToGallery:noThumb"
                /\ UNCHANGED << gallery, galleryVars >>
           ELSE LET item == [ id    |-> uid(galleryUid + 1),
                              name  |-> GalleryItemName(name, Len(gallery) + 1),
                              notes |-> poseNotes,
                              pose  |-> serializePose(Scene, poseNotes),
                              thumb |-> thumb ]
                IN  /\ gallery' = unshift(gallery, item, GalleryMaxItems)
                    /\ gallerySelectedId' = item.id
                    /\ galleryUid' = galleryUid + 1
                    /\ lastOp' = "savePoseToGallery"
    /\ UNCHANGED << STATE_mode, SYM_enabled, selected, gizmo_object, joints, meshes, props,
                    imported, REST, poseNotes, nextId, steps, fnVars, ioVars, character, uiVars, overlay >>

ApplyOps == { "applyPose", "applyPose:roundTrip", "applyPose:again" }

\* History: whether the document applied is the serialization of the state
\* it is applied to, or the document applied by the step before.
ApplyLabel(data) ==
    IF data = serializePose(Scene, poseNotes) THEN "applyPose:roundTrip"
    ELSE IF lastOp \in ApplyOps /\ fn_in = data THEN "applyPose:again"
    ELSE "applyPose"

\* applyPose(data) on an object, as a handler's step; fn_in keeps the document.
MonoApplyPose(data, rnd) ==
    /\ steps < MaxSteps
    /\ ~applyPoseThrows(data)
    /\ SetScene(applyPose(Scene, data, nextId, rnd))
    /\ nextId' = nextId + PropCount(data)
    /\ steps' = steps + 1
    /\ lastOp' = ApplyLabel(data)
    /\ fn_in' = data
    /\ UNCHANGED << STATE_mode, SYM_enabled, selected, gizmo_object, REST, gallery,
                    fn_out, fn_pc, ioVars, character, uiVars, galleryUid, overlay >>

\* A click on a gallery card: the card becomes the selected one, then
\* applyPose(it.pose), then the item's notes.
GalleryCardClick(i, rnd) ==
    /\ i \in 1..Len(gallery)
    /\ gallerySelectedId' = gallery[i].id
    /\ MonoApplyPose(gallery[i].pose, rnd)
    /\ poseNotes' = applyNotes(applyNotes(poseNotes, gallery[i].pose), gallery[i])

\* filePose change: applyPose(JSON.parse(text)).
LoadPoseFile(data, rnd) ==
    /\ MonoApplyPose(data, rnd)
    /\ UNCHANGED gallerySelectedId
    /\ poseNotes' = applyNotes(poseNotes, data)

\* filePose change on a file that is no object: applyPose throws on its first
\* line, the handler has no catch and the rejection leaves everything as it was.
LoadPoseFileThrows(data) ==
    /\ steps < MaxSteps
    /\ applyPoseThrows(data)
    /\ steps' = steps + 1
    /\ lastOp' = "applyPose:error"
    /\ fn_in' = data
    /\ UNCHANGED << STATE_mode, SYM_enabled, selected, gizmo_object, joints, meshes, props,
                    imported, REST, poseNotes, gallery, nextId, fn_out, fn_pc, ioVars, character, uiVars, galleryVars, overlay >>

MonoNext ==
    \/ \E hit \in MonoHits : MonoPointerDown(hit)
    \/ \E m \in MonoModes : MonoSetMode(m)
    \/ MonoClearSelection
    \/ \E v \in EditRotations \cup EditPositions : MonoHandleEdit(v)
    \/ \E type \in PropTypes, pos \in SpawnPositions : MonoAddProp(type, pos)
    \/ (steps < MaxSteps /\ steps' = steps + 1 /\ MonoDeleteSelectedProp)
    \/ MonoResetPose
    \/ \E draw \in RandomDraws : MonoRandomPose(draw)
    \/ SavePoseToGallery(<< >>, "data:image/png")
    \/ \E i \in 1..MaxGallery :
        \E rnd \in [ 1..(IF i <= Len(gallery) THEN PropCount(gallery[i].pose) ELSE 0)
                        -> SpawnPositions ] : GalleryCardClick(i, rnd)
    \/ \E data \in FileDocs \cup NonObjects : \E rnd \in [ 1..PropCount(data) -> SpawnPositions ] :
            LoadPoseFile(data, rnd)
    \/ \E data \in FileDocs \cup NonObjects : LoadPoseFileThrows(data)

MonoSpec == MonoInit /\ [][MonoNext]_vars

(***************************************************************************)
(* The reference overlay of src/engine/scene.js (createReferenceOverlay).  *)
(* Image files are numbered in the order setImageFile is called with them; *)
(* 0 stands for null in _url, _tex and material.map.                        *)
(***************************************************************************)
\* setImageFile calls per behaviour.
MaxImages == 3

\* clear(): the sprite is hidden, _url is revoked and forgotten, _tex is
\* disposed and forgotten, material.map is null.
overlayClear(o) == [ o EXCEPT !.visible = FALSE, !.url = 0, !.tex = 0, !.map = 0 ]

\* A call of clear(); clearedAt keeps how many files had been passed in by then.
OverlayClear ==
    /\ overlay' = [ overlayClear(overlay) EXCEPT !.clearedAt = overlay.issued ]
    /\ lastOp' = "overlay.clear"
    /\ UNCHANGED << STATE_mode, SYM_enabled, selected, gizmo_object, joints, meshes, props,
                    imported, REST, poseNotes, gallery, nextId, steps, fnVars, ioVars, character,
                    uiVars, galleryVars >>

\* setVisible(v): sprite.visible = !!v && !!material.map
OverlaySetVisible(v) ==
    /\ overlay' = [ overlay EXCEPT !.visible = v /\ overlay.map # 0 ]
    /\ lastOp' = "overlay.setVisible"
    /\ UNCHANGED << STATE_mode, SYM_enabled, selected, gizmo_object, joints, meshes, props,
                    imported, REST, poseNotes, gallery, nextId, steps, fnVars, ioVars, character,
                    uiVars, galleryVars >>

\* setImageFile(file) up to its await: nothing without a file; otherwise
\* clear(), _url = URL.createObjectURL(file), and the image starts loading.
SetImageFile(hasFile) ==
    /\ overlay.issued < MaxImages
    /\ IF ~hasFile
           THEN /\ overlay' = overlay
                /\ lastOp' = "overlay.setImageFile:none"
           ELSE LET k == overlay.issued + 1
                IN  /\ overlay' = [ overlayClear(overlay) EXCEPT !.url = k, !.issued = k,
                                                                 !.loading = @ \cup { k } ]
                    /\ lastOp' = "overlay.setImageFile"
    /\ UNCHANGED << STATE_mode, SYM_enabled, selected, gizmo_object, joints, meshes, props,
                    imported, REST, poseNotes, gallery, nextId, steps, fnVars, ioVars, character,
                    uiVars, galleryVars >>

\* img.onload of file k, and the rest of setImageFile: _tex and material.map
\* become the image's texture and the sprite is shown.  The continuation
\* looks neither at _url nor at the calls made since.
ImageLoaded(k) ==
    /\ k \in overlay.loading
    /\ overlay' = [ overlay EXCEPT !.tex = k, !.map = k, !.visible = TRUE,
                                   !.loading = @ \ { k } ]
    /\ lastOp' = "overlay.load"
    /\ UNCHANGED << STATE_mode, SYM_enabled, selected, gizmo_object, joints, meshes, props,
                    imported, REST, poseNotes, gallery, nextId, steps, fnVars, ioVars, character,
                    uiVars, galleryVars >>

\* img.onerror of file k: the promise rejects and setImageFile ends there.
ImageFailed(k) ==
    /\ k \in overlay.loading
    /\ overlay' = [ overlay EXCEPT !.loading = @ \ { k } ]
    /\ lastOp' = "overlay.error"
    /\ UNCHANGED << STATE_mode, SYM_enabled, selected, gizmo_object, joints, meshes, props,
                    imported, REST, poseNotes, gallery, nextId, steps, fnVars, ioVars, character,
                    uiVars, galleryVars >>

\* The calls of the overlay's interface in any order, and the image loads
\* ending in any order.
OverlayNext ==
    \/ OverlayClear
    \/ \E v \in BOOLEAN : OverlaySetVisible(v)
    \/ \E hasFile \in BOOLEAN : SetImageFile(hasFile)
    \/ \E k \in 1..MaxImages : ImageLoaded(k)
    \/ \E k \in 1..MaxImages : ImageFailed(k)

OverlaySpec == Init /\ [][OverlayNext]_vars

(***************************************************************************)
(* The pose gallery of src/app.js: boot from storage, save, card click,    *)
(* rename, delete and clear.                                                *)
(***************************************************************************)
\* galleryItems.find(x => x.id === gallerySelectedId): the index of the first
\* such item, or 0.
GalleryFind(items, id) ==
    IF \E k \in 1..Len(items) : items[k].id = id
        THEN CHOOSE k \in 1..Len(items) :
                 items[k].id = id /\ \A m \in 1..(k - 1) : items[m].id # id
        ELSE 0

\* it.name || ""
NameOrEmpty(it) == IF Has(it, "name") THEN it.name ELSE << >>

\* renameSelectedGalleryPose: needs a selected item; a cancelled prompt
\* changes nothing; an answer of blanks keeps the name the item has.
RenameSelectedGalleryPose(next) ==
    /\ LET k == GalleryFind(gallery, gallerySelectedId)
       IN  IF gallerySelectedId = NoGalleryId
               THEN lastOp' = "renamePose:none" /\ UNCHANGED gallery
           ELSE IF k = 0 \/ next = NullName
               THEN lastOp' = "renamePose:cancel" /\ UNCHANGED gallery
           ELSE LET trimmed == trim(next)
                    name    == IF trimmed # << >> THEN trimmed
                               ELSE IF NameOrEmpty(gallery[k]) # << >> THEN gallery[k].name
                               ELSE UntitledPose
                IN  /\ gallery' = [ gallery EXCEPT ![k] = [ name |-> name ] @@ @ ]
                    /\ lastOp' = "renamePose"
    /\ UNCHANGED << STATE_mode, SYM_enabled, selected, gizmo_object, joints, meshes, props,
                    imported, REST, poseNotes, nextId, steps, fnVars, ioVars, character, uiVars,
                    galleryVars, overlay >>

\* deleteSelectedGalleryPose: the items with the selected id go, and nothing
\* is selected afterwards.
DeleteSelectedGalleryPose ==
    /\ IF gallerySelectedId = NoGalleryId
           THEN lastOp' = "deletePose:none" /\ UNCHANGED << gallery, gallerySelectedId >>
           ELSE /\ gallery' = SelectSeq(gallery, LAMBDA x : x.id # gallerySelectedId)
                /\ gallerySelectedId' = NoGalleryId
                /\ lastOp' = "deletePose"
    /\ UNCHANGED << STATE_mode, SYM_enabled, selected, gizmo_object, joints, meshes, props,
                    imported, REST, poseNotes, nextId, steps, fnVars, ioVars, character, uiVars,
                    galleryUid, overlay >>

\* clearGalleryAll: on a gallery that has items, after the confirm dialog.
ClearGalleryAll(ok) ==
    /\ IF gallery = << >> \/ ~ok
           THEN lastOp' = "clearGallery:none" /\ UNCHANGED << gallery, gallerySelectedId >>
           ELSE /\ gallery' = << >>
                /\ gallerySelectedId' = NoGalleryId
                /\ lastOp' = "clearGallery"
    /\ UNCHANGED << STATE_mode, SYM_enabled, selected, gizmo_object, joints, meshes, props,
                    imported, REST, poseNotes, nextId, steps, fnVars, ioVars, character, uiVars,
                    galleryUid, overlay >>

\* Gallery items as localStorage keeps them.
StoredItem(k) ==
    [ id    |-> GalleryId("stored", k),
      name  |-> PosePrefix \o NumberChars(k),
      notes |-> "n1",
      pose  |-> DocJointsOnly,
      thumb |-> "data:image/png" ]

\* Stored entries that are no gallery items, and an item without a name.
StoredNoThumb == [ id |-> GalleryId("stored", 40), pose |-> DocJointsOnly ]
StoredNameless ==
    [ id |-> GalleryId("stored", 41), pose |-> DocJointsOnly, thumb |-> "data:image/png" ]

StoredSizes == { 0, 1, GalleryMaxItems - 1, GalleryMaxItems, GalleryMaxItems + 1 }

StoredGalleries ==
    { JsonArray([ k \in 1..n |-> StoredItem(k) ]) : n \in StoredSizes }
        \cup { JsonArray(<< StoredNoThumb, [ primitive |-> "null" ], StoredNameless >>),
               NotAnArray, StorageEmpty, StorageUnparsable }

\* The names typed into the save and rename dialogs; a cancelled prompt is null.
TypedNames == { << >>, << " " >>, << " ", "A", " " >> }

GalleryInit == \E raw \in StoredGalleries : MonoBoot(raw)

GalleryNext ==
    \/ \E name \in TypedNames, thumb \in Thumbs : SavePoseToGallery(name, thumb)
    \/ \E i \in 1..MaxGallery : GalleryCardClick(i, << >>)
    \/ \E next \in TypedNames \cup { NullName } : RenameSelectedGalleryPose(next)
    \/ DeleteSelectedGalleryPose
    \/ \E ok \in BOOLEAN : ClearGalleryAll(ok)

GallerySpec == GalleryInit /\ [][GalleryNext]_vars

\* The picks, the mode buttons and shortcuts, Escape, the add buttons and the
\* drags of the handle of the single-file application.
DragNext ==
    \/ \E hit \in MonoHits : MonoPointerDown(hit)
    \/ \E m \in MonoModes : MonoSetMode(m)
    \/ MonoClearSelection
    \/ \E type \in PropTypes, pos \in SpawnPositions : MonoAddProp(type, pos)
    \/ DragStart
    \/ \E v \in EditRotations \cup EditPositions : MonoHandleEdit(v)
    \/ DragEnd

DragSpec == MonoInit /\ [][DragNext]_vars

\* The props of the single-file application on their own: the add buttons,
\* the picks, Escape and the delete key.
PropsNext ==
    \/ \E type \in PropTypes, pos \in SpawnPositions : MonoAddProp(type, pos)
    \/ \E hit \in MonoHits : MonoPointerDown(hit)
    \/ MonoClearSelection
    \/ (MonoDeleteSelectedProp /\ UNCHANGED steps)

PropsSpec == MonoInit /\ [][PropsNext]_vars

\* applyPoseJointsOnly(data) of the single-file application: it throws on a
\* value that is no object or has no joints, then runs the joints loop of
\* applyPose on the pose as it is.
MonoApplyPoseJointsOnly(data) ==
    /\ steps < MaxSteps
    /\ IsObject(data)
    /\ Has(data, "joints")
    /\ SetScene(applyJoints(Scene, data))
    /\ steps' = steps + 1
    /\ lastOp' = "applyPoseJointsOnly"
    /\ fn_in' = data
    /\ UNCHANGED << STATE_mode, SYM_enabled, selected, gizmo_object, REST, poseNotes, gallery,
                    nextId, fn_out, fn_pc, ioVars, character, uiVars, galleryVars, overlay >>

\* The two entry points of the joints loop on documents read from files,
\* with random poses in between.
PoseFileNext ==
    \/ \E draw \in RandomDraws : MonoRandomPose(draw)
    \/ \E data \in HandEditedDocs \cup NonObjects : \E rnd \in [ 1..PropCount(data) -> SpawnPositions ] :
            LoadPoseFile(data, rnd)
    \/ \E data \in FileDocs \cup NonObjects : LoadPoseFileThrows(data)
    \/ \E data \in HandEditedDocs : MonoApplyPoseJointsOnly(data)

PoseFileSpec == MonoInit /\ [][PoseFileNext]_vars


(***************************************************************************)
(* Properties of the pose codec.                                           *)
(***************************************************************************)
\* Two prop lists with the same number of props, in the same order, each
\* with the same name, position, rotation and scale.
SameProps(ps, qs) ==
    /\ Len(ps) = Len(qs)
    /\ \A i \in 1..Len(ps) :
        /\ ps[i].name = qs[i].name
        /\ ps[i].position = qs[i].position
        /\ ps[i].quaternion = qs[i].quaternion
        /\ ps[i].scale = qs[i].scale

SameJointRotations(js, ks) ==
    /\ DOMAIN js = DOMAIN ks
    /\ \A j \in DOMAIN js : js[j].quaternion = ks[j].quaternion

\* A prop has what a descriptor says about it.
Described(p, pd) ==
    /\ (Has(pd, "name") /\ pd.name # << >>) => p.name = pd.name
    /\ Has(pd, "position") => p.position = vecFromArray(pd.position)
    /\ Has(pd, "quaternion") => p.quaternion = quatFromArray(pd.quaternion)
    /\ Has(pd, "scale") => p.scale = vecFromArray(pd.scale)

\* C1: applying the document serializePose returns for the current state
\* leaves every joint's rotation as it was and yields as many props as
\* before, in the same order, each with the name, position, rotation and
\* scale it had.
C1_RoundTrip ==
    [][ (lastOp' \in ApplyOps /\ fn_in' = serializePose(Scene, poseNotes)) =>
            /\ SameJointRotations(joints', joints)
            /\ SameProps(props', props)
      ]_vars

C1_Witness ==
    /\ lastOp = "applyPose:roundTrip"
    /\ Len(props) = 1
    /\ props[1].quaternion # QuatIdentity
    /\ props[1].scale # UnitScale
    /\ props[1].position # << 0, 0, 0 >>
    /\ joints["l_shoulder"].quaternion # QuatIdentity
    /\ Len(gallery) = 1

\* C2: applying a document a second time right after applying it leaves the
\* joint rotations of the first application, and the props are again exactly
\* the props the document describes: as many as before, no more.
C2_ApplyIdempotent ==
    [][ (lastOp \in ApplyOps /\ lastOp' \in ApplyOps /\ fn_in' = fn_in) =>
            /\ SameJointRotations(joints', joints)
            /\ Len(props') = Len(props)
            /\ PropCount(fn_in) > 0 =>
                /\ Len(props') = Len(fn_in.props.items)
                /\ \A i \in 1..Len(props') : Described(props'[i], fn_in.props.items[i])
      ]_vars

C2_Witness ==
    /\ lastOp = "applyPose:again"
    /\ fn_in = DocWithProps
    /\ Len(props) = 1
    /\ props[1].name = JointName["l_elbow"]
    /\ joints["l_shoulder"].quaternion = << 1, 2, 2, 0 >>


\* The document names n with a rotation applyPose accepts: a list of four numbers.
WellFormed(data, n) ==
    /\ Has(data, "joints")
    /\ n \in DOMAIN data.joints
    /\ IsArray(data.joints[n])
    /\ Len(data.joints[n].items) = 4

\* The rig has a joint of this name.
KnownJoint(n) == \E j \in DOMAIN joints : JointName[j] = n

\* An applyPose call has just returned or thrown.
ApplyOutcomes == ApplyOps \cup { "applyPose:error" }

\* C11: applyPose on a document with no props field, or with props that is
\* not a list, leaves the props as they were, while every joint the document
\* names with a four-number rotation takes that rotation.
C11_NoPropsListKeepsProps ==
    [][ (lastOp' \in ApplyOps /\ ~(Has(fn_in', "props") /\ IsArray(fn_in'.props)))
        => /\ props' = props
           /\ \A j \in DOMAIN joints' :
                WellFormed(fn_in', JointName[j])
                    => joints'[j].quaternion = quatFromArray(fn_in'.joints[JointName[j]]) ]_vars

\* A document whose props is no list has been applied while a prop was in the
\* scene, and the joint it names has taken its rotation.
C11_Witness ==
    /\ lastOp \in ApplyOps
    /\ Has(fn_in, "props") /\ ~IsArray(fn_in.props)
    /\ Len(props) > 0
    /\ WellFormed(fn_in, JointName["neck"])
    /\ joints["neck"].quaternion = quatFromArray(fn_in.joints[JointName["neck"]])
    /\ joints["neck"].quaternion # QuatIdentity

\* C12: a document whose joints map has a name the rig does not have raises
\* no error; no joint changes for it (a joint without a well-formed entry of
\* its own stays as it was), and the recognised entries are applied.
C12_UnknownJointSkipped ==
    [][ (/\ lastOp' \in ApplyOutcomes
         /\ IsObject(fn_in') /\ Has(fn_in', "joints")
         /\ \E n \in DOMAIN fn_in'.joints : ~KnownJoint(n))
        => /\ lastOp' \in ApplyOps
           /\ DOMAIN joints' = DOMAIN joints
           /\ \A j \in DOMAIN joints :
                IF WellFormed(fn_in', JointName[j])
                    THEN joints'[j] = [ joints[j] EXCEPT
                            !.quaternion = quatFromArray(fn_in'.joints[JointName[j]]) ]
                    ELSE joints'[j] = joints[j] ]_vars

\* A document with an unknown joint name was applied to a posed rig: the
\* recognised joint has its rotation and another joint keeps its own.
C12_Witness ==
    /\ lastOp \in ApplyOps
    /\ Has(fn_in, "joints")
    /\ \E n \in DOMAIN fn_in.joints : ~KnownJoint(n)
    /\ \E j \in DOMAIN joints :
        /\ WellFormed(fn_in, JointName[j])
        /\ joints[j].quaternion = quatFromArray(fn_in.joints[JointName[j]])
    /\ \E j \in DOMAIN joints :
        /\ ~WellFormed(fn_in, JointName[j])
        /\ joints[j].quaternion # QuatIdentity

\* C15: applyPose on a value that is not an object (null, undefined, a number,
\* a string) fails with an error and leaves every joint rotation, the props
\* and the notes as they were.
C15_NonObjectRejected ==
    [][ (lastOp' \in ApplyOutcomes /\ ~IsObject(fn_in'))
        => /\ lastOp' = "applyPose:error"
           /\ joints' = joints
           /\ props' = props
           /\ poseNotes' = poseNotes ]_vars

\* A number was handed to applyPose while the rig was posed and a prop was in
\* the scene.
C15_Witness ==
    /\ lastOp = "applyPose:error"
    /\ ~IsObject(fn_in) /\ fn_in.primitive = "number"
    /\ Len(props) > 0
    /\ \E j \in DOMAIN joints : joints[j].quaternion # QuatIdentity


C14_JointsOnlyKeepsProps ==
    [][ lastOp' = "applyPoseJointsOnly" => props' = props ]_vars

\* The document with a props list was applied joints-only while another prop
\* was in the scene: the joint is posed and the prop is still the old one.
C14_Witness ==
    /\ lastOp = "applyPoseJointsOnly"
    /\ joints["l_shoulder"].quaternion = quatFromArray(DocWithProps.joints[JointName["l_shoulder"]])
    /\ Len(props) = 1
    /\ props[1].name # DocWithProps.props.items[1].name


\* The step completes an import whose file the loader rejects or that holds
\* no scene.
FailingLoadCompletes ==
    \E i \in 1..Len(loads) :
        /\ loads[i].gltf # "scene"
        /\ loads' = RemoveAt(loads, i)

\* C16: a failed import is contained.  When the load fails or yields no scene,
\* the import has changed nothing of the scene, the registry of imported
\* models, the props or the selection, neither when it started nor when it
\* failed; its object URL is released; the failure is reported (the handler
\* ends in its catch block with the message) and no error leaves it.
C16_ImportFailureContained ==
    [][ /\ FailingLoadCompletes => lastOp' = "import:failed"
        /\ lastOp' \in { "import:start", "import:failed" }
            => /\ joints' = joints /\ meshes' = meshes
               /\ props' = props
               /\ imported' = imported
               /\ selected' = selected /\ gizmo_object' = gizmo_object
        /\ lastOp' = "import:failed"
            => /\ objectURLs' = objectURLs - 1
               /\ objectURLs' = Len(loads') ]_vars

\* An import has failed while a prop was in the scene and selected; no
\* object URL is left.
C16_Witness ==
    /\ lastOp = "import:failed"
    /\ Len(props) > 0
    /\ selected # Null
    /\ loads = << >>
    /\ objectURLs = 0


\* C17: Character.resetAllJointRotations sets the rotation of every joint of
\* the rig to the identity and leaves every joint's position and scale, every
\* part's scale, the props and the selection as they were.
C17_ResetRotationsOnly ==
    [][ lastOp' = "Character.resetAllJointRotations"
        => /\ \A j \in DOMAIN joints' : joints'[j].quaternion = QuatIdentity
           /\ DOMAIN joints' = DOMAIN joints
           /\ \A j \in DOMAIN joints :
                /\ joints'[j].position = joints[j].position
                /\ joints'[j].scale = joints[j].scale
           /\ meshes' = meshes
           /\ props' = props
           /\ selected' = selected ]_vars

\* The rotations were reset on a rig with a joint moved off its built place,
\* with a selection.
C17_Witness ==
    /\ lastOp = "Character.resetAllJointRotations"
    /\ \E j \in DOMAIN joints : joints[j].position # JointPosition[j]
    /\ \A j \in DOMAIN joints : joints[j].quaternion = QuatIdentity
    /\ selected # Null

\* The joint objects under the rig root: the root group's children and all
\* that build() hangs below them, which are the joints of the child's build.
UnderRoot ==
    { [ name |-> JointOrder[i], build |-> character.root[k].build ] :
        i \in 1..Len(JointOrder), k \in 1..Len(character.root) }

\* C19: building again discards the tree before.  After any number of
\* build() calls the joint list holds exactly the joints of one freshly built
\* hierarchy, each joint name once, and no joint of an earlier build is left
\* in the list or under the rig root.
C19_RebuildDiscards ==
    character.built =>
        /\ Len(character.joints) = Len(JointOrder)
        /\ \A n \in JointIds :
            Cardinality({ i \in 1..Len(character.joints) : character.joints[i].name = n }) = 1
        /\ \A i \in 1..Len(character.joints) : character.joints[i].build = character.made
        /\ \A o \in UnderRoot : o.build = character.made
        /\ Len(character.root) = 1

\* The rig has been built a second time after boot.
C19_Witness ==
    /\ character.built
    /\ character.made = MaxBuilds
    /\ lastOp = "Character.build"


\* Every part a ray can hit inside a known entity: the boxes of the rig, the
\* meshes of the registered props and of the imported models.
HitParts ==
    { Ref("mesh", m) : m \in MeshIds }
        \cup { Ref("propMesh", props[i].id) : i \in 1..Len(props) }
        \cup { Ref("importMesh", imported[i].id) : i \in 1..Len(imported) }

\* The entity a part belongs to.
OwnerOf(part) ==
    IF part.kind = "mesh" THEN Ref("joint", MeshParent(part.id))
    ELSE IF part.kind = "propMesh" THEN Ref("prop", part.id)
    ELSE Ref("import", part.id)

\* C18: the resolver never returns a bare visual part for a hit inside a known
\* entity: a box of the rig resolves to the joint that owns it, a mesh under
\* a registered prop to the prop root, a mesh under an imported model to the
\* model's root, never to the hit mesh itself; so no part is ever selected.
C18_ResolverReturnsEntity ==
    /\ \A part \in HitParts :
        /\ resolveSelectionFromHit(part) = OwnerOf(part)
        /\ resolveSelectionFromHit(part) # part
    /\ selected.kind \in { "null", "joint", "prop", "import" }

\* A click on a mesh of an imported model selected the model's root, with a
\* prop in the scene as well.
C18_Witness ==
    /\ lastOp = "pointerdown"
    /\ selected.kind = "import"
    /\ selected = resolveSelectionFromHit(Ref("importMesh", selected.id))
    /\ Len(props) > 0


(***************************************************************************)
(* The Transform Target Policy as a function of the mode and a joint of    *)
(* the built rig.                                                          *)
(***************************************************************************)
PolicyInputs == [ mode : Modes, sel : { Ref("joint", j) : j \in JointIds } \cup { Null } ]

PolicyInit == Boot /\ fn_in \in PolicyInputs /\ fn_out = << >> /\ fn_pc = "start"

\* getGizmoTargetForSelection(sel) under STATE.mode
PolicyCall ==
    /\ fn_pc = "start"
    /\ fn_out' = << getGizmoTargetForSelection(fn_in.mode, fn_in.sel) >>
    /\ fn_pc' = "once"
    /\ UNCHANGED << fn_in, appVars >>

PolicyNext == PolicyCall

PolicySpec == PolicyInit /\ [][PolicyNext]_vars

\* C20: in scale mode, for a selected joint that has no visible part of its
\* own (char_root and chest in the built rig), the target is the joint itself
\* and not a part of a descendant joint.
C20_ScaleFallbackToJoint ==
    (/\ fn_pc = "once"
     /\ fn_in.mode = "scale"
     /\ isJoint(fn_in.sel)
     /\ ~HasOwnPart(fn_in.sel.id))
        => fn_out[1] = fn_in.sel


(***************************************************************************)
(* The Selection Resolver as a function of the hit object.                 *)
(***************************************************************************)
\* hits[0].object: nothing, a box of the rig, a prop root or its mesh, an
\* imported root or a mesh under it, an imported mesh under a joint, a loose
\* mesh.
ResolverInputs ==
    { Null, Ref("looseMesh", "floor") }
        \cup { Ref("mesh", m) : m \in MeshIds }
        \cup { Ref(k, ObjectId[i]) :
                k \in { "prop", "propMesh", "import", "importMesh", "graftedImportMesh" },
                i \in 1..Len(ObjectId) }

ResolverInit == Boot /\ fn_in \in ResolverInputs /\ fn_out = << >> /\ fn_pc = "start"

\* _resolveSelectionFromHit(hitObj)
ResolverCall ==
    /\ fn_pc = "start"
    /\ fn_out' = << resolveSelectionFromHit(fn_in) >>
    /\ fn_pc' = "once"
    /\ UNCHANGED << fn_in, appVars >>

ResolverSpec == ResolverInit /\ [][ResolverCall]_vars

\* C21: the resolver's rules in their order of precedence, the first
\* qualifying ancestor winning: (a) a part with a back-reference to an
\* imported root resolves to that root, even when its parent is a joint;
\* (b) else a part whose parent is a joint resolves to the joint; (c) else the
\* first enclosing prop root; (d) a part with none of these at any ancestor
\* resolves to itself.
C21_ResolverPrecedence ==
    fn_pc = "once" =>
        fn_out[1] =
            IF fn_in = Null THEN Null
            ELSE IF fn_in.kind \in { "importMesh", "graftedImportMesh" } THEN Ref("import", fn_in.id)
            ELSE IF fn_in.kind = "mesh" THEN Ref("joint", MeshParent(fn_in.id))
            ELSE IF fn_in.kind = "propMesh" THEN Ref("prop", fn_in.id)
            ELSE fn_in

\* The resolver was given an imported mesh that hangs under a joint and gave
\* the imported root, not the joint.
C21_Witness ==
    /\ fn_pc = "once"
    /\ fn_in.kind = "graftedImportMesh"
    /\ isJoint(Parent(fn_in))
    /\ fn_out[1] = Ref("import", fn_in.id)


\* The scene as it would be with joint j missing from world.joints.
WithoutJoint(sc, j) == [ sc EXCEPT !.joints = [ k \in DOMAIN sc.joints \ { j } |-> sc.joints[k] ] ]

\* C22: a missing counterpart is a silent no-op.  With symmetry on, a handle
\* edit in rotate or scale mode on a selected joint whose name has no
\* left/right prefix changes no other joint, no other part, no prop and no
\* imported model, and the handler completes; and on a rig that lacks the
\* joint of the swapped name, the listener leaves the scene as the edit made
\* it.
C22_MissingCounterpartNoOp ==
    [][ /\ (/\ lastOp' = "edit"
            /\ SYM_enabled
            /\ STATE_mode \in { "rotate", "scale" }
            /\ isJoint(selected)
            /\ ~HasCounterpart(selected.id))
            => /\ \A j \in JointIds \ { selected.id } : joints'[j] = joints[j]
               /\ \A m \in MeshIds : Ref("mesh", m) # gizmo_object => meshes'[m] = meshes[m]
               /\ props' = props
               /\ imported' = imported
        /\ (/\ lastOp' = "edit"
            /\ isJoint(selected)
            /\ HasCounterpart(selected.id))
            => LET lone == WithoutJoint(Scene, JointNamed(counterpartName(JointName[selected.id])))
               IN  \A mode \in { "rotate", "scale" } :
                        objectChangeListener(lone, mode, TRUE, selected) = lone
      ]_vars

\* With symmetry on, the neck was rotated and its box scaled; the rest of the
\* rig is as built.
C22_Witness ==
    /\ lastOp = "edit"
    /\ SYM_enabled
    /\ selected = Ref("joint", "neck")
    /\ joints["neck"].quaternion # QuatIdentity
    /\ meshes["head_mesh"] # UnitScale
    /\ \A j \in JointIds \ { "neck" } : joints[j] = BuiltJoints[j]
    /\ \A m \in MeshIds \ { "head_mesh" } : meshes[m] = UnitScale


\* C23: scale mirroring.  With symmetry on, in scale mode, after a handle edit
\* on a selected joint whose counterpart exists, the counterpart's visible
\* part has the scale of the edited joint's visible part, and the
\* counterpart joint's own position, rotation and scale and the edited
\* joint's own transform are as they were.
C23_SymmetryScale ==
    [][ (/\ lastOp' = "edit"
         /\ STATE_mode = "scale"
         /\ SYM_enabled
         /\ isJoint(selected)
         /\ HasCounterpart(selected.id)) =>
            LET J == selected.id
                Jc == JointNamed(counterpartName(JointName[J]))
            IN  /\ meshes'[OwnPart(J)] \in EditScales
                /\ meshes'[OwnPart(Jc)] = meshes'[OwnPart(J)]
                /\ joints'[Jc] = joints[Jc]
                /\ joints'[J] = joints[J]
      ]_vars

\* With symmetry on, the left upper arm was scaled and the right one has
\* taken the same scale; both shoulders keep their unit scale.
C23_Witness ==
    /\ lastOp = "edit"
    /\ STATE_mode = "scale"
    /\ SYM_enabled
    /\ selected = Ref("joint", "l_shoulder")
    /\ meshes["l_upperarm_mesh"] # UnitScale
    /\ meshes["r_upperarm_mesh"] = meshes["l_upperarm_mesh"]
    /\ joints["l_shoulder"].scale = UnitScale
    /\ joints["r_shoulder"].scale = UnitScale


\* C24: no mirror feedback loop.  One handle-edit notification makes at most
\* one mirror write, from the edited joint to its counterpart: the edited
\* joint keeps what the handle wrote, nothing but the handle's target and the
\* counterpart's changes, the handler is counted once, and the listener run
\* again on the outcome would change nothing.
C24_NoMirrorFeedback ==
    [][ (/\ lastOp' = "edit"
         /\ SYM_enabled
         /\ STATE_mode \in { "rotate", "scale" }
         /\ isJoint(selected)
         /\ HasCounterpart(selected.id)) =>
            LET J == selected.id
                Jc == JointNamed(counterpartName(JointName[J]))
            IN  /\ STATE_mode = "rotate" =>
                    /\ joints'[J].quaternion \in EditRotations
                    /\ joints'[J] = [ joints[J] EXCEPT !.quaternion = joints'[J].quaternion ]
                    /\ joints'[Jc] = [ joints[Jc] EXCEPT !.quaternion = joints'[Jc].quaternion ]
                    /\ \A k \in JointIds \ { J, Jc } : joints'[k] = joints[k]
                    /\ meshes' = meshes
                /\ STATE_mode = "scale" =>
                    /\ meshes'[OwnPart(J)] \in EditScales
                    /\ \A m \in MeshIds \ { OwnPart(J), OwnPart(Jc) } : meshes'[m] = meshes[m]
                    /\ joints' = joints
                /\ objectChangeListener(Scene', STATE_mode, TRUE, selected) = Scene'
                /\ steps' = steps + 1
                /\ props' = props /\ imported' = imported
      ]_vars

\* One edit with symmetry on: the left shoulder holds the handle's rotation,
\* the right shoulder its mirror image, and nothing else has moved.
C24_Witness ==
    /\ lastOp = "edit"
    /\ STATE_mode = "rotate"
    /\ SYM_enabled
    /\ steps = 1
    /\ selected = Ref("joint", "l_shoulder")
    /\ joints["l_shoulder"].quaternion \in EditRotations
    /\ SameRotation(joints["r_shoulder"].quaternion, ReflectX(joints["l_shoulder"].quaternion))
    /\ \A k \in JointIds \ { "l_shoulder", "r_shoulder" } : joints[k] = BuiltJoints[k]


\* C25: no half-mirrored state at a render boundary.  With symmetry on and a
\* joint with a counterpart edited in rotate mode, the render tick that
\* follows the edit notification draws the counterpart at the mirror image
\* of the edited joint's rotation, with the handle on the policy's target:
\* neither is put off past the notification.
C25_NoHalfMirroredFrame ==
    [][ (/\ lastOp = "edit"
         /\ lastOp' = "render"
         /\ SYM_enabled
         /\ STATE_mode = "rotate"
         /\ isJoint(selected)
         /\ HasCounterpart(selected.id)) =>
            LET J == selected.id
                Jc == JointNamed(counterpartName(JointName[J]))
            IN  /\ joints'[J].quaternion \in EditRotations
                /\ SameRotation(joints'[Jc].quaternion, ReflectX(joints'[J].quaternion))
                /\ gizmo_object' = getGizmoTargetForSelection(STATE_mode', selected')
      ]_vars

\* A frame drawn after two handlers with symmetry on: the left shoulder holds
\* the handle's rotation and the right shoulder its mirror image.
C25_Witness ==
    /\ lastOp = "render"
    /\ SYM_enabled
    /\ STATE_mode = "rotate"
    /\ steps = MaxSteps
    /\ selected = Ref("joint", "l_shoulder")
    /\ joints["l_shoulder"].quaternion = << 2, 0, -1, 2 >>
    /\ SameRotation(joints["r_shoulder"].quaternion, ReflectX(<< 2, 0, -1, 2 >>))


\* An entry of the document's joints for this name that is not a list of
\* exactly four numbers.
Malformed(data, n) ==
    /\ Has(data, "joints")
    /\ n \in DOMAIN data.joints
    /\ ~(IsArray(data.joints[n]) /\ Len(data.joints[n].items) = 4)

\* C26: malformed rotations are skipped.  In applyPose and in
\* applyPoseJointsOnly a joints entry that is not a list of exactly four
\* numbers leaves its joint as it was, the call does not throw because of it,
\* and the well-formed entries of the same document are applied.
C26_MalformedSkipped ==
    [][ /\ (lastOp' \in ApplyOps \cup { "applyPoseJointsOnly" }) =>
                \A j \in DOMAIN joints' :
                    /\ Malformed(fn_in', JointName[j]) => joints'[j] = joints[j]
                    /\ WellFormed(fn_in', JointName[j]) =>
                            joints'[j].quaternion = quatFromArray(fn_in'.joints[JointName[j]])
        /\ (lastOp' = "applyPose:error") => ~IsObject(fn_in')
      ]_vars

\* The hand-edited document went through applyPoseJointsOnly on a posed rig:
\* the neck took its rotation while the chest and the hips, whose entries are
\* malformed, kept a rotation that is not the rest rotation.
C26_Witness ==
    /\ lastOp = "applyPoseJointsOnly"
    /\ fn_in = DocOdd
    /\ Malformed(DocOdd, JointName["chest"])
    /\ Malformed(DocOdd, JointName["hips"])
    /\ joints["neck"].quaternion = quatFromArray(DocOdd.joints[JointName["neck"]])
    /\ joints["chest"].quaternion # QuatIdentity


\* C27: applyPose replaces the prop set.  When the document's props is a
\* list of n descriptors, the registry afterwards holds exactly n props in
\* the document's order, each one a new object that carries the name, the
\* position, the rotation and the scale its descriptor gives, and no prop
\* registered before the call is still registered.
C27_PropSetReplaced ==
    [][ (lastOp' \in ApplyOps /\ Has(fn_in', "props") /\ IsArray(fn_in'.props)) =>
            LET pds == fn_in'.props.items
            IN  /\ Len(props') = Len(pds)
                /\ \A i \in 1..Len(pds) :
                    /\ \A k \in 1..Len(props) : props'[i].id # props[k].id
                    /\ \A k \in 1..Len(pds) : k # i => props'[k].id # props'[i].id
                    /\ (Has(pds[i], "name") /\ pds[i].name # << >>) => props'[i].name = pds[i].name
                    /\ Has(pds[i], "position") => props'[i].position = vecFromArray(pds[i].position)
                    /\ Has(pds[i], "quaternion") =>
                            props'[i].quaternion = quatFromArray(pds[i].quaternion)
                    /\ Has(pds[i], "scale") => props'[i].scale = vecFromArray(pds[i].scale)
      ]_vars

\* A document with one full descriptor was applied over a prop added
\* before: the registry holds the one rebuilt prop, a second object.
C27_Witness ==
    /\ lastOp = "applyPose"
    /\ fn_in = DocWithProps
    /\ nextId = 2
    /\ Len(props) = 1
    /\ props[1].id = ObjectId[2]
    /\ props[1].name = DocWithProps.props.items[1].name
    /\ props[1].scale = vecFromArray(DocWithProps.props.items[1].scale)


\* C28: prop type resolution on load.  The type of each rebuilt prop is the
\* descriptor's own type field when the descriptor has one, and is guessed
\* from the name only when it has none.
C28_ExplicitTypeWins ==
    [][ (lastOp' \in ApplyOps /\ Has(fn_in', "props") /\ IsArray(fn_in'.props)) =>
            \A i \in 1..Len(fn_in'.props.items) :
                LET pd == fn_in'.props.items[i]
                    nm == IF Has(pd, "name") THEN pd.name ELSE << >>
                IN  props'[i].type =
                        IF Has(pd, "type") THEN pd.type
                        ELSE IF Includes(nm, TypeChars["cube"]) THEN "cube" ELSE "sphere"
      ]_vars


\* What a reset of the rotations may do to a rig that the full reset would
\* not do as well: nothing.  Positions, scales and the parts are left alone,
\* and a rotation it changes is changed to the value the full reset gives.
ContainedInRestore(after) ==
    LET restored == resetAllJointTransforms(Scene, REST)
    IN  /\ \A j \in DOMAIN joints :
            /\ after[j].position = joints[j].position
            /\ after[j].scale = joints[j].scale
            /\ after[j].quaternion # joints[j].quaternion =>
                    after[j].quaternion = restored.joints[j].quaternion
        /\ resetAllJointTransforms([ Scene EXCEPT !.joints = after ], REST) = restored

\* C29: only the full reset undoes scale-mode edits.  The scale of a part of
\* the rig, and of a joint, changes in no step other than resetPose and an
\* edit in scale mode: the rotation resets, applyPose, applyPoseJointsOnly,
\* the random pose, the selection and mode changes leave every scale as it
\* was (a rebuild of the character replaces the parts by new ones); and what
\* a rotation reset does to the rig, the full reset does as well.
C29_OnlyRestoreUndoesScale ==
    /\ [][ (\/ meshes' # meshes
            \/ \E j \in DOMAIN joints : joints'[j].scale # joints[j].scale) =>
                \/ lastOp' = "resetPose"
                \/ lastOp' = "edit" /\ STATE_mode = "scale"
                \/ lastOp' = "Character.build" ]_vars
    /\ [](/\ ContainedInRestore(resetAllJointRotations(Scene, REST).joints)
          /\ ContainedInRestore(Character_resetAllJointRotations(joints)))

\* The rotations were reset after a part had been scaled: the part keeps the
\* scale the edit gave it.
C29_Witness ==
    /\ lastOp = "Character.resetAllJointRotations"
    /\ STATE_mode = "scale"
    /\ selected = Ref("joint", "l_shoulder")
    /\ meshes["l_upperarm_mesh"] # UnitScale
    /\ \A j \in DOMAIN joints : joints[j].quaternion = QuatIdentity


\* C30: handle attachment follows the policy.  After every handler the node
\* the handle is attached to is the policy's target for the mode and the
\* selection as they are now, never one chosen under an earlier mode or
\* selection, and the handle is detached exactly when that target is none,
\* which is when nothing is selected or the mode is orbit.
C30_HandleFollowsPolicy ==
    /\ gizmo_object = PolicyTable(STATE_mode, selected)
    /\ (gizmo_object = Null) <=> (PolicyTable(STATE_mode, selected) = Null)
    /\ (gizmo_object = Null) <=> (selected = Null \/ STATE_mode = "orbit")

\* A joint's box was scaled through the handle and the mode then changed to
\* orbit: the joint is still selected and the handle, which sat on the box,
\* is detached.
C30_Witness ==
    /\ lastOp = "setMode"
    /\ STATE_mode = "orbit"
    /\ selected = Ref("joint", "l_shoulder")
    /\ gizmo_object = Null
    /\ meshes["l_upperarm_mesh"] # UnitScale



(***************************************************************************)
(* The re-evaluation of the handle's target (attachGizmoForCurrentMode) as *)
(* a function of the mode, the selection and the outline option.           *)
(***************************************************************************)
\* SelectionController.updateOutline: the outline is hidden when the option
\* is off or nothing is selected; otherwise it is fitted to the selection
\* again and shown.
updateOutline(showOutline, sel) ==
    IF ~showOutline \/ sel = Null
        THEN [ visible |-> FALSE, refreshed |-> FALSE ]
        ELSE [ visible |-> TRUE, refreshed |-> TRUE ]

\* attachGizmoForCurrentMode: the handle goes to the policy's target or is
\* detached; selection.updateOutline() is called on both paths.
attachGizmoForCurrentMode(mode, sel, showOutline) ==
    LET target == getGizmoTargetForSelection(mode, sel)
    IN  IF target = Null
            THEN [ gizmo |-> Null, outline |-> updateOutline(showOutline, sel) ]
            ELSE [ gizmo |-> target, outline |-> updateOutline(showOutline, sel) ]

AttachInputs ==
    [ mode : Modes, sel : { Ref("joint", j) : j \in JointIds } \cup { Null }, showOutline : BOOLEAN ]

AttachInit == Boot /\ fn_in \in AttachInputs /\ fn_out = << >> /\ fn_pc = "start"

AttachCall ==
    /\ fn_pc = "start"
    /\ fn_out' = << attachGizmoForCurrentMode(fn_in.mode, fn_in.sel, fn_in.showOutline) >>
    /\ fn_pc' = "once"
    /\ UNCHANGED << fn_in, appVars >>

AttachSpec == AttachInit /\ [][AttachCall]_vars

\* C31: when the policy yields no target (orbit mode, or nothing selected),
\* the re-evaluation detaches the handle and does not refresh the outline.
C31_DetachSuppressesOutline ==
    (/\ fn_pc = "once"
     /\ getGizmoTargetForSelection(fn_in.mode, fn_in.sel) = Null)
        => /\ fn_out[1].gizmo = Null
           /\ ~fn_out[1].outline.refreshed



\* C32: an import is all-or-nothing in time.  The step that starts an import
\* changes nothing of the scene, the registry of imported models or the
\* selection; while loads are in flight no step of another handler adds an
\* imported root; the root is added, under the file's name, and selected only
\* in the step in which the loader has resolved with a scene, and that step
\* consumes exactly that load.
C32_ImportAllOrNothing ==
    [][ /\ lastOp' = "import:start" =>
            /\ Len(loads') = Len(loads) + 1
            /\ joints' = joints /\ meshes' = meshes /\ props' = props
            /\ imported' = imported
            /\ selected' = selected /\ gizmo_object' = gizmo_object
        /\ Len(imported') > Len(imported) =>
            /\ lastOp' = "import"
            /\ \E i \in 1..Len(loads) :
                /\ loads[i].gltf = "scene"
                /\ loads' = RemoveAt(loads, i)
                /\ Len(imported') = Len(imported) + 1
                /\ SubSeq(imported', 1, Len(imported)) = imported
                /\ imported'[Len(imported')].name = loads[i].name
                /\ selected' = Ref("import", imported'[Len(imported')].id)
                /\ \A k \in 1..Len(imported) : imported[k].id # imported'[Len(imported')].id
        /\ (lastOp' \notin { "import", "import:start", "import:failed" }) => loads' = loads
      ]_vars

\* A first import has resolved while a second one, started after it, is still
\* in flight: one root is registered and selected, one load is pending.
C32_Witness ==
    /\ lastOp = "import"
    /\ Len(loads) = 1
    /\ Len(imported) = 1
    /\ selected = Ref("import", imported[1].id)
    /\ objectURLs = 1



\* C33: imported models are destroyed by the explicit remove.  After a delete
\* request with an imported model selected, its root or one of its meshes,
\* the root is no longer among the imported roots, the props are as they
\* were, nothing is selected and the handle is detached.
C33_DeleteRemovesImported ==
    [][ (/\ lastOp' = "deleteSelectedProp"
         /\ selected.kind \in { "import", "importMesh" }) =>
            /\ \A k \in 1..Len(imported') : imported'[k].id # selected.id
            /\ props' = props
            /\ selected' = Null
            /\ gizmo_object' = Null ]_vars



\* C34: removing a non-prop is a silent no-op.  A delete request with nothing
\* or a joint selected leaves the props, the rig, the selection and the
\* handle as they were; with a registered prop selected it removes exactly
\* that prop, keeps every other prop and their order, and ends with nothing
\* selected and the handle detached.
C34_DeleteNonPropNoOp ==
    [][ lastOp' = "deleteSelectedProp" =>
            /\ joints' = joints /\ meshes' = meshes
            /\ (selected = Null \/ isJoint(selected)) =>
                    /\ props' = props
                    /\ selected' = selected
                    /\ gizmo_object' = gizmo_object
            /\ (selected.kind = "prop" /\ \E k \in 1..Len(props) : props[k].id = selected.id) =>
                    /\ Len(props') = Len(props) - 1
                    /\ \A k \in 1..Len(props') : props'[k].id # selected.id
                    /\ props' = SelectSeq(props, LAMBDA p : p \in { props'[k] : k \in 1..Len(props') })
                    /\ selected' = Null
                    /\ gizmo_object' = Null
      ]_vars

\* The second of two props was picked and deleted: the first is still
\* registered, nothing is selected, the handle is detached.
C34_Witness ==
    /\ lastOp = "deleteSelectedProp"
    /\ nextId = 2
    /\ Len(props) = 1
    /\ props[1].id = ObjectId[1]
    /\ selected = Null
    /\ gizmo_object = Null



\* An object of the scene as it is now: a joint of the rig, a registered prop
\* or an imported root.
Live(o) ==
    \/ o.kind = "joint" /\ o.id \in DOMAIN joints
    \/ o.kind = "prop" /\ \E k \in 1..Len(props) : props[k].id = o.id
    \/ o.kind = "import" /\ \E k \in 1..Len(imported) : imported[k].id = o.id

\* C35: no dangling selection.  In every reachable state the selection is
\* none or a live entity, and so is the node the handle is attached to; after
\* applyPose has replaced the props while an old prop was selected, neither
\* refers to the removed prop.
C35_NoDanglingSelection ==
    /\ selected = Null \/ Live(selected)
    /\ gizmo_object = Null \/ Live(gizmo_object)



\* C36: a pointer-down changes the selection only on a hit outside orbit
\* mode.  In orbit mode, while the help modal is shown, or when nothing
\* pickable is hit, the selection is after the pointer-down what it was
\* before, neither replaced nor cleared; otherwise it is the entity resolved
\* from the hit.
C36_PointerDownFrame ==
    [][ (lastOp' \in { "pointerdown", "pointerdown:help" }) =>
            /\ (STATE_mode = "orbit" \/ lastOp' = "pointerdown:help") => selected' = selected
            /\ selected' # selected =>
                    \E hit \in Hits \ { Null } :
                        LET obj == resolveSelectionFromHit(hit)
                        IN  /\ obj # Null
                            /\ selected' = IF isImportedModel(obj) THEN importRoot(obj) ELSE obj
            /\ selected' # Null
                \/ selected = Null
      ]_vars

\* A pointer-down has arrived while the help modal was shown, in rotate mode
\* with a prop selected: the prop is still selected.
C36_Witness ==
    /\ lastOp = "pointerdown:help"
    /\ STATE_mode = "rotate"
    /\ selected.kind = "prop"
    /\ gizmo_object = selected



\* C37: camera orbit and handle dragging are mutually exclusive.  However
\* drag starts, drag ends and mode changes interleave, the orbit controls are
\* never enabled while a drag of the handle is in progress, and while no drag
\* is in progress they are enabled exactly when the mode is orbit.
C37_OrbitDragExclusive ==
    /\ gizmo_dragging => ~orbit_enabled
    /\ ~gizmo_dragging => (orbit_enabled <=> STATE_mode = "orbit")

\* C38: the gallery never holds more than GALLERY.maxItems items, whatever
\* storage held at boot and whatever is saved, renamed, deleted or cleared.
\* A save that got its thumbnail puts the new item, under an id no item had,
\* at the front and selects it; the items it found follow in their order, and
\* on a full gallery the last of them is dropped.  A save without a thumbnail
\* leaves the items and the selection as they were.
C38_GalleryCapacity ==
    /\ [](Len(gallery) <= GalleryMaxItems)
    /\ [][ /\ (lastOp' = "savePoseToGallery" =>
                /\ Len(gallery') = (IF Len(gallery) < GalleryMaxItems
                                        THEN Len(gallery) + 1 ELSE GalleryMaxItems)
                /\ \A k \in 1..Len(gallery) : gallery[k].id # gallery'[1].id
                /\ gallerySelectedId' = gallery'[1].id
                /\ \A k \in 2..Len(gallery') : gallery'[k] = gallery[k - 1])
           /\ (lastOp' = "savePoseToGallery:noThumb" =>
                UNCHANGED << gallery, gallerySelectedId, galleryUid >>) ]_vars

\* A save into a gallery that booted full: the new item leads and is the
\* selected one, and the last stored item is gone.
C38_Witness ==
    /\ lastOp = "savePoseToGallery"
    /\ Len(gallery) = GalleryMaxItems
    /\ gallery[1].id = uid(1)
    /\ gallerySelectedId = uid(1)
    /\ gallery[GalleryMaxItems].id = GalleryId("stored", GalleryMaxItems - 1)

\* C39: the sprite is visible only while the overlay has an image, and the
\* image the overlay shows is the one of the latest setImageFile call, made
\* after the latest clear(): a load that was in flight when clear() or a
\* later setImageFile was called never becomes the displayed image, and after
\* clear() the overlay stays without an image until a later setImageFile
\* call completes.
C39_ClearIsFinal ==
    /\ (overlay.visible => overlay.map # 0)
    /\ (overlay.map # 0 =>
            /\ overlay.map = overlay.issued
            /\ overlay.map > overlay.clearedAt)

====
